---- MODULE Spec2Model ----
(***************************************************************************)
(* SCons/Tool/MSCommon/common.py: the MSCommon call tracer (class          *)
(* _MSCOMMON_TRACE, armed with sys.settrace) and the helpers of class      *)
(* _MSCOMMON it relies on (module-name helpers, the SCONS_MSCOMMON_        *)
(* TRACEFLAGS resolver).                                                   *)
(*                                                                         *)
(* Python strings are modelled as sequences of one-character strings, so   *)
(* that startswith / endswith / strip / rindex / split / replace are       *)
(* computed character by character as the str methods compute them.        *)
(***************************************************************************)
EXTENDS Integers, Sequences, FiniteSets, TLC

VARIABLES
    TRACEFLAGS_ENV,          \* _MSCOMMON.TRACEFLAGS_ENV: <<>> when the variable is unset, else <<string>>
    _TRACEFLAGS,             \* _MSCOMMON._TRACEFLAGS: <<>> for None, else <<cached value>>
    resolved,                \* outcome of the last get_trace_display_traceflags() call
    ncalls,                  \* number of get_trace_display_traceflags() calls made so far
    TRACEFLAGS,              \* _MSCOMMON_TRACE.TRACEFLAGS
    DEBUG_LOGGING,           \* _MSCOMMON.DEBUG_LOGGING
    stack,                   \* the interpreter's frame stack, root first
    FRAME_ENTRY_DEPTH,       \* _MSCOMMON_TRACE.FRAME_ENTRY_DEPTH
    FRAME_ENTRY_LOCATION,    \* _MSCOMMON_TRACE.FRAME_ENTRY_LOCATION
    FRAME_ENTRY_SLOT,        \* _MSCOMMON_TRACE.FRAME_ENTRY_SLOT
    FRAME_LAST_CHAINLENGTH,  \* _MSCOMMON_TRACE.FRAME_LAST_CHAINLENGTH
    out,                     \* the lines print_message has written to TRACE_FH, oldest first
    tr,                      \* the last notification handled by trace_current_module: its locals and outcome
    nevents,                 \* number of call/return notifications delivered so far
    files,                   \* the names of the files in the directory the log files go to
    _last_n,                 \* _MSCOMMON._last_n: <<>> for None, else <<n>>
    rw,                      \* the last rewrite_filename call: its arguments and outcome
    nrewrites,               \* number of rewrite_filename calls made so far
    allocated                \* the numbers rewrite_filename has stored in _last_n, oldest first

vars == <<TRACEFLAGS_ENV, _TRACEFLAGS, resolved, ncalls, TRACEFLAGS, DEBUG_LOGGING, stack,
          FRAME_ENTRY_DEPTH, FRAME_ENTRY_LOCATION, FRAME_ENTRY_SLOT, FRAME_LAST_CHAINLENGTH,
          out, tr, nevents, files, _last_n, rw, nrewrites, allocated>>

flagvars == <<TRACEFLAGS_ENV, _TRACEFLAGS, resolved, ncalls>>
tracevars == <<TRACEFLAGS, DEBUG_LOGGING, stack, FRAME_ENTRY_DEPTH, FRAME_ENTRY_LOCATION,
               FRAME_ENTRY_SLOT, FRAME_LAST_CHAINLENGTH, out, tr, nevents>>
filevars == <<files, _last_n, rw, nrewrites, allocated>>

(***************************************************************************)
(* Python str methods on character sequences                               *)
(***************************************************************************)

Max(S) == CHOOSE x \in S : \A y \in S : y <= x

Min(S) == CHOOSE x \in S : \A y \in S : x <= y

startswith(s, p) == Len(p) <= Len(s) /\ SubSeq(s, 1, Len(p)) = p

endswith(s, p) == Len(p) <= Len(s) /\ SubSeq(s, Len(s) - Len(p) + 1, Len(s)) = p

\* the 1-based positions at which p occurs in s
occurrences(s, p) == {i \in 1..(Len(s) - Len(p) + 1) : SubSeq(s, i, i + Len(p) - 1) = p}

\* str.rindex: the highest position of p in s; 0 stands for the ValueError of "not found"
rindex(s, p) == IF occurrences(s, p) = {} THEN 0 ELSE Max(occurrences(s, p))

\* the `in` operator on strings
contains(s, p) == occurrences(s, p) # {}

\* str.replace for a one-character pattern
replace(s, old, new) == [i \in 1..Len(s) |-> IF s[i] = old THEN new ELSE s[i]]

\* str.strip(chars): drop every leading and every trailing character that is in chars
strip(s, chars) ==
    LET keep == {i \in 1..Len(s) : s[i] \notin chars}
    IN  IF keep = {} THEN <<>> ELSE SubSeq(s, Min(keep), Max(keep))

\* str.split for a one-character separator
RECURSIVE split(_, _)
split(s, sep) ==
    IF \A i \in 1..Len(s) : s[i] # sep
    THEN <<s>>
    ELSE LET i == Min({j \in 1..Len(s) : s[j] = sep})
         IN  <<SubSeq(s, 1, i - 1)>> \o split(SubSeq(s, i + 1, Len(s)), sep)

\* "sep".join(words)
RECURSIVE join(_, _)
join(words, sep) ==
    IF Len(words) = 0 THEN <<>>
    ELSE IF Len(words) = 1 THEN words[1]
    ELSE words[1] \o <<sep>> \o join(Tail(words), sep)

(***************************************************************************)
(* String literals of common.py and of the traced program                  *)
(***************************************************************************)

W_lib == <<"l", "i", "b">>
W_SCons == <<"S", "C", "o", "n", "s">>
W_test == <<"t", "e", "s", "t">>
W_scons == <<"s", "c", "o", "n", "s">>
W_MSCommon == <<"M", "S", "C", "o", "m", "m", "o", "n">>
W_Tool == <<"T", "o", "o", "l">>
W_Script == <<"S", "c", "r", "i", "p", "t">>
W_logging == <<"l", "o", "g", "g", "i", "n", "g">>
W_init == <<"_", "_", "i", "n", "i", "t", "_", "_">>
W_Environment == <<"E", "n", "v", "i", "r", "o", "n", "m", "e", "n", "t">>
W_vc == <<"v", "c">>
W_common == <<"c", "o", "m", "m", "o", "n">>
W_msvc == <<"m", "s", "v", "c">>
W_debug == <<"d", "e", "b", "u", "g">>
W_add_env == <<"a", "d", "d", "_", "e", "n", "v">>
W_Util == <<"U", "t", "i", "l">>
W_PrependPath == <<"P", "r", "e", "p", "e", "n", "d", "P", "a", "t", "h">>
W_PrependENVPath == <<"P", "r", "e", "p", "e", "n", "d", "E", "N", "V", "P", "a", "t", "h">>
W_module == <<"<", "m", "o", "d", "u", "l", "e", ">">>
W_listcomp == <<"<", "l", "i", "s", "t", "c", "o", "m", "p", ">">>
W_SConscript == <<"S", "C", "o", "n", "s", "c", "r", "i", "p", "t">>
W_msvc_setup_env == <<"m", "s", "v", "c", "_", "s", "e", "t", "u", "p", "_", "e", "n", "v">>
W_script_env == <<"s", "c", "r", "i", "p", "t", "_", "e", "n", "v">>
W_parse_output == <<"p", "a", "r", "s", "e", "_", "o", "u", "t", "p", "u", "t">>
W_filter == <<"f", "i", "l", "t", "e", "r">>
W_get_relative_filename ==
    <<"g", "e", "t", "_", "r", "e", "l", "a", "t", "i", "v", "e", "_", "f", "i", "l", "e", "n", "a", "m", "e">>
W_generate == <<"g", "e", "n", "e", "r", "a", "t", "e">>

\* a source file name: a Windows path (the tracer serves the MSVC tool modules)
WinPath(dirs, base, ext) ==
    join(<<<<"C", ":">>>> \o dirs \o <<base>>, "\\") \o (IF ext = <<>> THEN <<>> ELSE <<".">> \o ext)

PyFile(dirs, base) == WinPath(dirs, base, <<"p", "y">>)

\* the module half of an ignore-list / allow-list pair, e.g. 'SCons/Tool/MSCommon/common'
Module(parts) == join(parts, "/")

(***************************************************************************)
(* _MSCOMMON: module-name helpers                                          *)
(***************************************************************************)

modulelist_trace == <<W_lib, W_SCons, W_test, W_scons>>

\* the loop of get_relative_filename from the k-th entry of module_list on
RECURSIVE relative_from(_, _, _)
relative_from(filename, module_list, k) ==
    IF k > Len(module_list) THEN filename
    ELSE LET ind == rindex(filename, module_list[k])
         IN  IF ind # 0 THEN SubSeq(filename, ind, Len(filename))
             ELSE relative_from(filename, module_list, k + 1)

get_relative_filename(filename, module_list) ==
    IF filename = <<>> THEN filename ELSE relative_from(filename, module_list, 1)

\* the part shared by get_relative_module and get_module: cut the last '.', turn '\' into '/'
modname_of(name) ==
    LET ind == rindex(name, <<".">>)
        modname == IF ind # 0 THEN SubSeq(name, 1, ind - 1) ELSE name
    IN  replace(modname, "\\", "/")

get_relative_module(filename, module_list) ==
    IF filename = <<>> THEN filename
    ELSE IF filename[1] = "<" THEN filename
    ELSE modname_of(get_relative_filename(filename, module_list))

get_module(filename) ==
    IF filename = <<>> THEN filename
    ELSE IF filename[1] = "<" THEN filename
    ELSE modname_of(filename)

(***************************************************************************)
(* _MSCOMMON: the trace flag bits                                          *)
(***************************************************************************)

TRACE_DISPLAY_FUNCTION_ARGLIST == 1
TRACE_DISPLAY_FUNCTION_LOCATION == 2
TRACE_DISPLAY_RETURN_VALUES == 4
TRACE_DISPLAY_ALLFRAMES_ONEBELOW == 8

\* Python's & and | on integers of any sign (two's complement of unbounded width)
RECURSIVE BitAnd(_, _)
BitAnd(a, b) ==
    IF a = 0 \/ b = 0 THEN 0
    ELSE IF a = -1 THEN b
    ELSE IF b = -1 THEN a
    ELSE (a % 2) * (b % 2) + 2 * BitAnd(a \div 2, b \div 2)

RECURSIVE BitOr(_, _)
BitOr(a, b) ==
    IF a = 0 THEN b
    ELSE IF b = 0 THEN a
    ELSE IF a = -1 \/ b = -1 THEN -1
    ELSE ((a % 2) + (b % 2) - (a % 2) * (b % 2)) + 2 * BitOr(a \div 2, b \div 2)

TRACE_DISPLAY_DEFAULT ==
    BitOr(BitOr(TRACE_DISPLAY_FUNCTION_ARGLIST, TRACE_DISPLAY_FUNCTION_LOCATION),
          TRACE_DISPLAY_RETURN_VALUES)

(***************************************************************************)
(* Python's int(x, 0) and integer literals                                 *)
(***************************************************************************)

DigitValue ==
    [c \in {"0", "1", "2", "3", "4", "5", "6", "7", "8", "9",
            "a", "b", "c", "d", "e", "f", "A", "B", "C", "D", "E", "F"} |->
        CASE c = "0" -> 0 [] c = "1" -> 1 [] c = "2" -> 2 [] c = "3" -> 3 [] c = "4" -> 4
          [] c = "5" -> 5 [] c = "6" -> 6 [] c = "7" -> 7 [] c = "8" -> 8 [] c = "9" -> 9
          [] c \in {"a", "A"} -> 10 [] c \in {"b", "B"} -> 11 [] c \in {"c", "C"} -> 12
          [] c \in {"d", "D"} -> 13 [] c \in {"e", "E"} -> 14 [] c \in {"f", "F"} -> 15]

BaseDigits(base) == {c \in DOMAIN DigitValue : DigitValue[c] < base}

Letters ==
    {"a", "b", "c", "d", "e", "f", "g", "h", "i", "j", "k", "l", "m", "n", "o", "p", "q", "r",
     "s", "t", "u", "v", "w", "x", "y", "z", "A", "B", "C", "D", "E", "F", "G", "H", "I", "J",
     "K", "L", "M", "N", "O", "P", "Q", "R", "S", "T", "U", "V", "W", "X", "Y", "Z"}

\* the characters of names and of numeric literals
WordChars == Letters \cup BaseDigits(10) \cup {"_"}

Whitespace == {" "}

\* digits with single underscores between them (and, after a base prefix, before them):
\* <<value>>, or <<>> when s[i..] is not of that form
RECURSIVE digits_value(_, _, _, _)
digits_value(s, i, base, acc) ==
    IF i > Len(s) THEN <<acc>>
    ELSE IF s[i] = "_"
    THEN IF i < Len(s) /\ s[i + 1] \in BaseDigits(base)
         THEN digits_value(s, i + 1, base, acc) ELSE <<>>
    ELSE IF s[i] \in BaseDigits(base)
    THEN digits_value(s, i + 1, base, acc * base + DigitValue[s[i]])
    ELSE <<>>

\* a variant of the integer literal that knows no base prefix
int_literal_decimal(s) ==
    IF s = <<>> \/ s[1] \notin BaseDigits(10) THEN <<>>
    ELSE LET v == digits_value(s, 1, 10, 0)
         IN  IF s[1] = "0" /\ v # <<>> /\ v[1] # 0 THEN <<>> ELSE v

\* an integer literal (decimal, 0b, 0o, 0x; a decimal with a leading zero is zero):
\* <<value>>, or <<>> when s is not one
int_literal(s) ==
    IF s = <<>> THEN <<>>
    ELSE IF Len(s) >= 2 /\ s[1] = "0" /\ s[2] \in {"b", "B", "o", "O", "x", "X"}
    THEN IF Len(s) = 2 THEN <<>>
         ELSE digits_value(s, 3, CASE s[2] \in {"b", "B"} -> 2
                                   [] s[2] \in {"o", "O"} -> 8
                                   [] OTHER -> 16, 0)
    ELSE IF s[1] \notin BaseDigits(10) THEN <<>>
    ELSE LET v == digits_value(s, 1, 10, 0)
         IN  IF s[1] = "0" /\ v # <<>> /\ v[1] # 0 THEN <<>> ELSE v

\* int(x, 0): surrounding whitespace dropped, an optional sign, then an integer literal;
\* <<value>>, or <<>> for ValueError
int_base0(x) ==
    LET t == strip(x, Whitespace)
        signed == t # <<>> /\ t[1] \in {"+", "-"}
        v == int_literal(IF signed THEN Tail(t) ELSE t)
    IN  IF v = <<>> THEN <<>>
        ELSE IF signed /\ t[1] = "-" THEN <<0 - v[1]>> ELSE v

(***************************************************************************)
(* Python's compile(source, "<string>", "eval") and eval(code, ...) on the *)
(* sources the model draws: names, integer literals, string literals,      *)
(* spaces and the operators | & + - .                                      *)
(***************************************************************************)

Quotes == {"\"", "'"}

OperatorChars == {"|", "&", "+", "-"}

\* the letters that may precede a string literal's opening quote
StringPrefixes ==
    {<<a>> : a \in {"b", "B", "r", "R", "u", "U", "f", "F"}}
    \cup {<<a, b>> : a \in {"b", "B", "f", "F"}, b \in {"r", "R"}}
    \cup {<<a, b>> : a \in {"r", "R"}, b \in {"b", "B", "f", "F"}}

Token(t, n, s) == [t |-> t, n |-> n, s |-> s]

ErrorToken == Token("error", 0, <<>>)

\* the last index of the run of characters of `chars` that starts at s[i]
RECURSIVE run_end(_, _, _)
run_end(s, i, chars) ==
    IF i < Len(s) /\ s[i + 1] \in chars THEN run_end(s, i + 1, chars) ELSE i

\* the index where the string literal opened at s[i] with `width` quote characters closes
\* (the first of its closing quote characters), 0 when it is unterminated
string_close(s, i, width) ==
    LET closes == {j \in (i + width)..(Len(s) - width + 1) :
                      \A k \in 0..(width - 1) : s[j + k] = s[i]}
    IN  IF closes = {} THEN 0 ELSE Min(closes)

\* the tokens of s[i..]; a lexical error ends the sequence with ErrorToken
RECURSIVE tokenize(_, _)
string_token(s, i, kind) ==
    LET width == IF i + 2 <= Len(s) /\ s[i + 1] = s[i] /\ s[i + 2] = s[i] THEN 3 ELSE 1
        j == string_close(s, i, width)
    IN  IF j = 0 THEN <<ErrorToken>>
        ELSE <<Token(kind, 0, SubSeq(s, i + width, j - 1))>> \o tokenize(s, j + width)

tokenize(s, i) ==
    IF i > Len(s) THEN <<>>
    ELSE IF s[i] \in Whitespace THEN tokenize(s, i + 1)
    ELSE IF s[i] \in BaseDigits(10)
    THEN LET j == run_end(s, i, WordChars)
             v == int_literal(SubSeq(s, i, j))
         IN  IF v = <<>> THEN <<ErrorToken>>
             ELSE <<Token("num", v[1], <<>>)>> \o tokenize(s, j + 1)
    ELSE IF s[i] \in WordChars
    THEN LET j == run_end(s, i, WordChars)
             word == SubSeq(s, i, j)
         IN  IF j < Len(s) /\ s[j + 1] \in Quotes /\ word \in StringPrefixes
             THEN string_token(s, j + 1,
                               IF \E k \in 1..Len(word) : word[k] \in {"b", "B"}
                               THEN "bytes" ELSE "str")
             ELSE <<Token("name", 0, word)>> \o tokenize(s, j + 1)
    ELSE IF s[i] \in Quotes THEN string_token(s, i, "str")
    ELSE IF s[i] \in OperatorChars THEN <<Token("op", 0, <<s[i]>>)>> \o tokenize(s, i + 1)
    ELSE <<ErrorToken>>

\* values: an int n, a str or bytes s, or the TypeError an operation raised
Value(t, n, s) == [t |-> t, n |-> n, s |-> s]

IntValue(n) == Value("int", n, <<>>)

TypeError == Value("TypeError", 0, <<>>)

\* +x and -x
unary(op, x) ==
    IF x.t # "int" THEN TypeError
    ELSE IF op = "-" THEN IntValue(0 - x.n) ELSE x

\* x | y, x & y, x + y, x - y
binary(op, x, y) ==
    IF x.t = "int" /\ y.t = "int"
    THEN CASE op = "|" -> IntValue(BitOr(x.n, y.n))
           [] op = "&" -> IntValue(BitAnd(x.n, y.n))
           [] op = "+" -> IntValue(x.n + y.n)
           [] op = "-" -> IntValue(x.n - y.n)
    ELSE IF op = "+" /\ x.t = y.t /\ x.t \in {"str", "bytes"}
    THEN Value(x.t, 0, x.s \o y.s)
    ELSE TypeError

\* the parse of an expression from toks[p]: where it ends and what it evaluates to
Parsed(pos, val) == [ok |-> TRUE, pos |-> pos, val |-> val]

SyntaxError == [ok |-> FALSE, pos |-> 0, val |-> TypeError]

\* adjacent string literals are one literal; bytes and str literals do not mix
RECURSIVE strings(_, _, _)
strings(toks, p, acc) ==
    IF p <= Len(toks) /\ toks[p].t \in {"str", "bytes"}
    THEN IF toks[p].t # acc.t THEN SyntaxError
         ELSE strings(toks, p + 1, Value(acc.t, 0, acc.s \o toks[p].s))
    ELSE Parsed(p, acc)

\* names evaluate in `locals`, a set of <<name, value>> pairs
atom(toks, p, locals) ==
    IF p > Len(toks) THEN SyntaxError
    ELSE CASE toks[p].t = "num" -> Parsed(p + 1, IntValue(toks[p].n))
           [] toks[p].t = "name" ->
                Parsed(p + 1, IF \E kv \in locals : kv[1] = toks[p].s
                              THEN IntValue((CHOOSE kv \in locals : kv[1] = toks[p].s)[2])
                              ELSE TypeError)
           [] toks[p].t \in {"str", "bytes"} ->
                strings(toks, p + 1, Value(toks[p].t, 0, toks[p].s))
           [] OTHER -> SyntaxError

is_op(toks, p, ops) == p <= Len(toks) /\ toks[p].t = "op" /\ toks[p].s[1] \in ops

RECURSIVE factor(_, _, _)
factor(toks, p, locals) ==
    IF is_op(toks, p, {"+", "-"})
    THEN LET x == factor(toks, p + 1, locals)
         IN  IF x.ok THEN Parsed(x.pos, unary(toks[p].s[1], x.val)) ELSE SyntaxError
    ELSE atom(toks, p, locals)

\* binary operators by precedence: | binds loosest, then &, then + and -
LevelOperators == <<{"|"}, {"&"}, {"+", "-"}>>

RECURSIVE expr(_, _, _, _)
RECURSIVE expr_rest(_, _, _, _, _)
expr(level, toks, p, locals) ==
    IF level > Len(LevelOperators) THEN factor(toks, p, locals)
    ELSE LET x == expr(level + 1, toks, p, locals)
         IN  IF x.ok THEN expr_rest(level, toks, x.pos, x.val, locals) ELSE SyntaxError

expr_rest(level, toks, p, acc, locals) ==
    IF is_op(toks, p, LevelOperators[level])
    THEN LET y == expr(level + 1, toks, p + 1, locals)
         IN  IF y.ok
             THEN expr_rest(level, toks, y.pos, binary(toks[p].s[1], acc, y.val), locals)
             ELSE SyntaxError
    ELSE Parsed(p, acc)

\* compile(source, "<string>", "eval") and the eval of its code in `locals`, given the
\* tokens of source and the parse x of an expression at their head:
\* ok is false when compile raises (leading whitespace is an unexpected indent)
compiled(source, toks, x) ==
    [ok |-> /\ source # <<>>
            /\ source[1] \notin Whitespace
            /\ \A k \in 1..Len(toks) : toks[k].t # "error"
            /\ x.ok
            /\ x.pos = Len(toks) + 1,
     co_names |-> SelectSeq(toks, LAMBDA tok : tok.t = "name"),
     val |-> x.val]

parse_eval(source, toks, locals) == compiled(source, toks, expr(1, toks, 1, locals))

compile_eval(source, locals) == parse_eval(source, tokenize(source, 1), locals)

(***************************************************************************)
(* _MSCOMMON.get_trace_display_traceflags                                  *)
(***************************************************************************)

TRACE_DISPLAY_SYMBOLS ==
    {<<<<"T", "R", "A", "C", "E", "_", "D", "I", "S", "P", "L", "A", "Y", "_", "F", "U", "N", "C", "T", "I", "O", "N", "_", "A", "R", "G", "L", "I", "S", "T">>,
       TRACE_DISPLAY_FUNCTION_ARGLIST>>,
     <<<<"T", "R", "A", "C", "E", "_", "D", "I", "S", "P", "L", "A", "Y", "_", "F", "U", "N", "C", "T", "I", "O", "N", "_", "L", "O", "C", "A", "T", "I", "O", "N">>,
       TRACE_DISPLAY_FUNCTION_LOCATION>>,
     <<<<"T", "R", "A", "C", "E", "_", "D", "I", "S", "P", "L", "A", "Y", "_", "R", "E", "T", "U", "R", "N", "_", "V", "A", "L", "U", "E", "S">>,
       TRACE_DISPLAY_RETURN_VALUES>>,
     <<<<"T", "R", "A", "C", "E", "_", "D", "I", "S", "P", "L", "A", "Y", "_", "A", "L", "L", "F", "R", "A", "M", "E", "S", "_", "O", "N", "E", "B", "E", "L", "O", "W">>,
       TRACE_DISPLAY_ALLFRAMES_ONEBELOW>>}

\* a variant of lines 270-275 without the short names
symbols_long_names == TRACE_DISPLAY_SYMBOLS

\* lines 270-275: long names and short names
symbols ==
    LET prefix == <<"T", "R", "A", "C", "E", "_", "D", "I", "S", "P", "L", "A", "Y", "_">>
    IN  TRACE_DISPLAY_SYMBOLS
        \cup {<<SubSeq(kv[1], Len(prefix) + 1, Len(kv[1])), kv[2]>> :
                 kv \in {x \in TRACE_DISPLAY_SYMBOLS : startswith(x[1], prefix)}}

\* lines 246-262: the quote stripping loop; empty |-> an emptied string made it return the default
RECURSIVE strip_outer_quotes(_)
strip_outer_quotes(envstr) ==
    LET once ==
            IF startswith(envstr, <<"\"">>) /\ endswith(envstr, <<"\"">>)
            THEN <<strip(envstr, {"\""})>>
            ELSE IF startswith(envstr, <<"'">>) /\ endswith(envstr, <<"'">>)
            THEN <<strip(envstr, {"'"})>>
            ELSE IF startswith(envstr, <<"\"", "\"", "\"">>)
                    /\ endswith(envstr, <<"\"", "\"", "\"">>)
            THEN <<strip(envstr, {"\""})>>
            ELSE <<>>
    IN  IF once = <<>> THEN [empty |-> FALSE, envstr |-> envstr]
        ELSE IF once[1] = <<>> THEN [empty |-> TRUE, envstr |-> <<>>]
        ELSE strip_outer_quotes(once[1])

\* what a call hands back or raises, and the cache it leaves
Returned(value, path) ==
    [raised |-> "", message |-> "", arg |-> <<>>, value |-> <<value>>, path |-> path,
     cache |-> <<value>>]

Raised(exception, message, arg, cache) ==
    [raised |-> exception, message |-> message, arg |-> arg, value |-> <<>>,
     path |-> "raise", cache |-> cache]

\* a variant of lines 276-290 that falls back to the default when compile() fails
evaluate_or_default(env, cache, code, unknown) ==
    IF ~code.ok
    THEN Returned(IntValue(TRACE_DISPLAY_DEFAULT), "empty")
    ELSE IF unknown # <<>>
    THEN Raised("NameError", "Undefined trace display symbol: %s", unknown[1].s, cache)
    ELSE IF code.val.t = "TypeError"
    THEN Raised("ValueError", "Trace display evaluation failed: %s", env[1], cache)
    ELSE Returned(code.val, "eval")

\* lines 276-290: envstr is compiled to `code`, its names are checked and it is evaluated
evaluate(env, cache, code, unknown) ==
    IF ~code.ok
    THEN Raised("ValueError", "Trace display compilation failed: %s", env[1], cache)
    ELSE IF unknown # <<>>
    THEN Raised("NameError", "Undefined trace display symbol: %s", unknown[1].s, cache)
    ELSE IF code.val.t = "TypeError"
    THEN Raised("ValueError", "Trace display evaluation failed: %s", env[1], cache)
    ELSE Returned(code.val, "eval")

unknown_names(co_names) ==
    SelectSeq(co_names, LAMBDA tok : \A kv \in symbols : kv[1] # tok.s)

compile_evaluate(env, cache, code) == evaluate(env, cache, code, unknown_names(code.co_names))

\* a variant of lines 263-268 that keeps the four flag bits of the number
convert_four_bits(env, cache, envstr, n) ==
    IF n # <<>> THEN Returned(IntValue(n[1] % 16), "int")
    ELSE compile_evaluate(env, cache, compile_eval(envstr, symbols))

\* lines 263-268: n is what int(envstr, 0) gives, <<>> for ValueError
convert(env, cache, envstr, n) ==
    IF n # <<>> THEN Returned(IntValue(n[1]), "int")
    ELSE compile_evaluate(env, cache, compile_eval(envstr, symbols))

\* lines 244-262: q is what the quote stripping loop leaves
stripped(env, cache, q) ==
    IF q.empty THEN Returned(IntValue(TRACE_DISPLAY_DEFAULT), "empty")
    ELSE convert(env, cache, q.envstr, int_base0(q.envstr))

\* env is <<>> for an environment without SCONS_MSCOMMON_TRACEFLAGS, else <<its value>>;
\* cache is <<>> for _TRACEFLAGS = None, else <<value>>
get_trace_display_traceflags(env, cache) ==
    IF cache # <<>> THEN [Returned(cache[1], "cached") EXCEPT !.cache = cache]
    ELSE IF env = <<>> THEN Returned(IntValue(TRACE_DISPLAY_DEFAULT), "unset")
    ELSE stripped(env, cache, strip_outer_quotes(env[1]))

(***************************************************************************)
(* _MSCOMMON: serial-numbered log file names.  The directory is the set of *)
(* file names glob.glob can see; names hold no path separator other than   *)
(* those splitext looks for.                                               *)
(***************************************************************************)

FILENAME_SERIALNBR == <<"-", "#">>

\* the characters of the file names, by increasing code point
CodePoints ==
    <<"#", "+", "-", ".", "/", "0", "1", "2", "3", "4", "5", "6", "7", "8", "9", "_", "a", "b", "c", "d", "e", "f", "g", "h", "i", "j", "k", "l", "m", "n", "o", "p", "q", "r", "s", "t", "u", "v", "w", "x", "y", "z">>

ord(c) == CHOOSE i \in 1..Len(CodePoints) : CodePoints[i] = c

\* a < b for two str objects
RECURSIVE str_lt(_, _)
str_lt(a, b) ==
    IF a = <<>> THEN b # <<>>
    ELSE IF b = <<>> THEN FALSE
    ELSE IF a[1] = b[1] THEN str_lt(Tail(a), Tail(b))
    ELSE ord(a[1]) < ord(b[1])

\* sorted(matches)[-1]
sorted_last(matches) == CHOOSE m \in matches : \A o \in matches : o = m \/ str_lt(o, m)

\* os.path.splitext(p): <<root, ext>>; the extension starts at the last dot of the last
\* path component, unless only dots precede it there
splitext(p) ==
    LET sepIndex == Max({0} \cup {i \in 1..Len(p) : p[i] \in {"/", "\\"}})
        dotIndex == Max({0} \cup {i \in 1..Len(p) : p[i] = "."})
    IN  IF dotIndex > sepIndex /\ \E i \in (sepIndex + 1)..(dotIndex - 1) : p[i] # "."
        THEN <<SubSeq(p, 1, dotIndex - 1), SubSeq(p, dotIndex, Len(p))>>
        ELSE <<p, <<>>>>

\* glob.glob(prefix + '*' + suffix) in a directory holding `names`: '*' stands for any run of
\* characters; a name with a leading dot is matched only by a pattern with a leading dot
glob(prefix, suffix, names) ==
    {name \in names :
        /\ Len(name) >= Len(prefix) + Len(suffix)
        /\ startswith(name, prefix)
        /\ endswith(name, suffix)
        /\ (name # <<>> /\ name[1] = ".") => (prefix # <<>> /\ prefix[1] = ".")}

\* int(x): surrounding whitespace dropped, an optional sign, then decimal digits with single
\* underscores between them; <<value>>, or <<>> for ValueError
int_base10(x) ==
    LET t == strip(x, Whitespace)
        signed == t # <<>> /\ t[1] \in {"+", "-"}
        d == IF signed THEN Tail(t) ELSE t
        v == IF d = <<>> \/ d[1] \notin BaseDigits(10) THEN <<>> ELSE digits_value(d, 1, 10, 0)
    IN  IF v = <<>> THEN <<>>
        ELSE IF signed /\ t[1] = "-" THEN <<0 - v[1]>> ELSE v

\* str(n) for n >= 0
RECURSIVE str_int(_)
str_int(n) ==
    LET digit == CHOOSE c \in BaseDigits(10) : DigitValue[c] = n % 10
    IN  IF n < 10 THEN <<digit>> ELSE Append(str_int(n \div 10), digit)

\* FILENAME_NBRFORMAT % n, for n >= 0: at least four digits, zeros in front
FILENAME_NBRFORMAT(n) ==
    LET d == str_int(n)
    IN  IF Len(d) >= 4 THEN d ELSE [i \in 1..(4 - Len(d)) |-> "0"] \o d

\* line 150: int(root.split(FILENAME_SERIALNBR[0])[-1])
suffix_number(text) == int_base10(text)

\* _MSCOMMON._get_next_serialnbr(fileglob) for fileglob = prefix + '*' + suffix:
\* <<n>>, or <<>> for the ValueError of int()
_get_next_serialnbr(prefix, suffix, names) ==
    LET matches == glob(prefix, suffix, names)
        root == splitext(sorted_last(matches))[1]
        words == split(root, FILENAME_SERIALNBR[1])
        n == suffix_number(words[Len(words)])
    IN  IF matches = {} THEN <<1>>
        ELSE IF n = <<>> THEN <<>>
        ELSE <<n[1] + 1>>

\* _MSCOMMON._get_filename(root, n, ext)
_get_filename(root, n, ext) == root \o FILENAME_NBRFORMAT(n) \o ext

\* what a rewrite_filename call hands back (raised = "") or raises, the _last_n it leaves,
\* and whether it called _get_next_serialnbr
Rewritten(filename, raised, n, last_n, scanned) ==
    [filename |-> filename, raised |-> raised, n |-> n, _last_n |-> last_n, scanned |-> scanned]

\* a variant of line 169 that stores the number whatever sync is
keeps_number_always(sync) == TRUE

\* line 169: if not sync
keeps_number(sync) == ~sync

\* lines 165-173, for the root without its '#'
rewrite_marked(root, ext, sync, last_n, names) ==
    IF sync /\ last_n # <<>>
    THEN Rewritten(_get_filename(root, last_n[1], ext), "", last_n, last_n, FALSE)
    ELSE LET n == _get_next_serialnbr(root, ext, names)
         IN  IF n = <<>> THEN Rewritten(<<>>, "ValueError", <<>>, last_n, TRUE)
             ELSE Rewritten(_get_filename(root, n[1], ext), "", n,
                            IF keeps_number(sync) THEN n ELSE last_n, TRUE)

\* _MSCOMMON.rewrite_filename(filename, sync) with _MSCOMMON._last_n = last_n
rewrite_filename(filename, sync, last_n, names) ==
    LET root == splitext(filename)[1]
        ext == splitext(filename)[2]
        k == Len(FILENAME_SERIALNBR)
    IN  IF filename = <<>> THEN Rewritten(filename, "", <<>>, last_n, FALSE)
        ELSE IF root = <<>> \/ SubSeq(root, Max({1, Len(root) - k + 1}), Len(root)) # FILENAME_SERIALNBR
        THEN Rewritten(filename, "", <<>>, last_n, FALSE)
        ELSE rewrite_marked(SubSeq(root, 1, Len(root) - 1), ext, sync, last_n, names)

\* no rewrite_filename call yet
NoRewrite == [template |-> <<>>, sync |-> FALSE, before |-> <<>>] @@ Rewritten(<<>>, "", <<>>, <<>>, FALSE)

\* an empty directory and no rewrite_filename call yet
NoLogFiles ==
    /\ files = {}
    /\ _last_n = <<>>
    /\ rw = NoRewrite
    /\ nrewrites = 0
    /\ allocated = <<>>

(***************************************************************************)
(* _MSCOMMON_TRACE: class attributes                                       *)
(***************************************************************************)

DISPLAY_FUNCTION_ARGLIST == BitAnd(TRACEFLAGS, TRACE_DISPLAY_FUNCTION_ARGLIST) # 0

DISPLAY_FUNCTION_LOCATION == BitAnd(TRACEFLAGS, TRACE_DISPLAY_FUNCTION_LOCATION) # 0

DISPLAY_RETURN_VALUES == BitAnd(TRACEFLAGS, TRACE_DISPLAY_RETURN_VALUES) # 0

DISPLAY_ALLFRAMES_ONEBELOW == BitAnd(TRACEFLAGS, TRACE_DISPLAY_ALLFRAMES_ONEBELOW) # 0

FRAME_CALLER_FRAMES == 5

M_common == Module(<<W_SCons, W_Tool, W_MSCommon, W_common>>)

M_logging == Module(<<W_lib, W_logging, W_init>>)

M_Environment == Module(<<W_SCons, W_Environment>>)

RETURN_IGNORELIST_ENABLED == TRUE

RETURN_IGNORELIST_FUNCTIONS == {
    <<Module(<<W_lib, <<"_", "w", "e", "a", "k", "r", "e", "f", "s", "e", "t">>>>),
      <<"_", "r", "e", "m", "o", "v", "e">>>>,
    <<Module(<<W_lib, <<"c", "o", "d", "e", "c", "s">>>>), W_init>>,
    <<Module(<<W_lib, <<"s", "u", "b", "p", "r", "o", "c", "e", "s", "s">>>>), <<"C", "l", "o", "s", "e">>>>,
    <<Module(<<W_lib, <<"s", "u", "b", "p", "r", "o", "c", "e", "s", "s">>>>),
      <<"_", "_", "d", "e", "l", "_", "_">>>>,
    <<M_logging, W_debug>>,
    <<M_Environment, <<"_", "_", "s", "e", "t", "i", "t", "e", "m", "_", "_">>>>,
    <<M_Environment, W_PrependENVPath>>,
    <<Module(<<W_SCons, W_Tool, W_MSCommon, <<"s", "d", "k">>>>), W_init>>,
    <<Module(<<W_SCons, W_Tool, W_MSCommon, <<"v", "s">>>>), W_init>>,
    <<Module(<<W_SCons, W_Tool, W_MSCommon, W_vc>>), W_init>>,
    <<M_common, W_debug>>,
    <<M_common, W_add_env>>,
    <<M_common, <<"w", "r", "i", "t", "e", "_", "s", "c", "r", "i", "p", "t", "_", "e", "n", "v", "_",
                  "c", "a", "c", "h", "e">>>> }

DEBUG_IGNORELIST_ENABLED == TRUE

DEBUG_IGNORELIST_FUNCTIONS ==
    IF ~DEBUG_LOGGING
    THEN {<<M_common, W_debug>>}
    ELSE {<<M_common, W_get_relative_filename>>, <<M_common, W_filter>>}

DEBUG_ALLOWLIST_ENABLED == DEBUG_LOGGING

DEBUG_ALLOWLIST_FUNCTIONS == {<<M_logging, W_debug>>}

PARENT_MODULE == W_MSCommon

\* a variant of lines 416-419 that takes the return events whatever the trace flags are
FRAME_TRACE_EVENTS_both == {"call", "return"}

FRAME_TRACE_EVENTS == IF DISPLAY_RETURN_VALUES THEN {"call", "return"} ELSE {"call"}

(***************************************************************************)
(* The traced program: code objects (f_code) and the call sites they hold. *)
(* A frame is [f_code, f_lineno, f_trace]; f_back of stack[i] is           *)
(* stack[i-1], and the stack root has none.  Its shown_at remembers the    *)
(* number of the output line written for its 'call' notification (0: none).*)
(***************************************************************************)

D_MSCommon == <<<<"s">>, W_SCons, W_Tool, W_MSCommon>>

CodeObjects ==
    [SConstruct |->
        [co_filename |-> WinPath(<<<<"w">>>>, <<"S", "C", "o", "n", "s", "t", "r", "u", "c", "t">>, <<>>),
         co_name |-> W_module, co_firstlineno |-> 1, returns |-> "None"],
     SConscript |->
        [co_filename |-> PyFile(<<<<"s">>, W_SCons, W_Script>>, W_SConscript),
         co_name |-> W_SConscript, co_firstlineno |-> 520, returns |-> "None"],
     generate |->
        [co_filename |-> PyFile(<<<<"s">>, W_SCons, W_Tool>>, W_msvc),
         co_name |-> W_generate, co_firstlineno |-> 260, returns |-> "None"],
     PrependENVPath |->
        [co_filename |-> PyFile(<<<<"s">>, W_SCons>>, W_Environment),
         co_name |-> W_PrependENVPath, co_firstlineno |-> 1240, returns |-> "None"],
     PrependPath |->
        [co_filename |-> PyFile(<<<<"s">>, W_SCons>>, W_Util),
         co_name |-> W_PrependPath, co_firstlineno |-> 350, returns |-> "'C:/bin'"],
     logging_debug |->
        [co_filename |-> PyFile(<<<<"p", "y">>, W_lib, W_logging>>, W_init),
         co_name |-> W_debug, co_firstlineno |-> 1424, returns |-> "None"],
     msvc_setup_env |->
        [co_filename |-> PyFile(D_MSCommon, W_vc),
         co_name |-> W_msvc_setup_env, co_firstlineno |-> 880, returns |-> "None"],
     script_env |->
        [co_filename |-> PyFile(D_MSCommon, W_vc),
         co_name |-> W_script_env, co_firstlineno |-> 690, returns |-> "{'PATH': [...]}"],
     parse_output |->
        [co_filename |-> PyFile(D_MSCommon, W_common),
         co_name |-> W_parse_output, co_firstlineno |-> 878, returns |-> "{'PATH': [...]}"],
     listcomp |->
        [co_filename |-> PyFile(D_MSCommon, W_common),
         co_name |-> W_listcomp, co_firstlineno |-> 886, returns |-> "[...]"],
     add_env |->
        [co_filename |-> PyFile(D_MSCommon, W_common),
         co_name |-> W_add_env, co_firstlineno |-> 893, returns |-> "None"],
     debug |->
        [co_filename |-> PyFile(D_MSCommon, W_common),
         co_name |-> W_debug, co_firstlineno |-> 320, returns |-> "None"],
     filter |->
        [co_filename |-> PyFile(D_MSCommon, W_common),
         co_name |-> W_filter, co_firstlineno |-> 299, returns |-> "True"],
     get_relative_filename |->
        [co_filename |-> PyFile(D_MSCommon, W_common),
         co_name |-> W_get_relative_filename, co_firstlineno |-> 193, returns |-> "'MSCommon/vc.py'"]]

Codes == DOMAIN CodeObjects

co_filename(c) == CodeObjects[c].co_filename

co_name(c) == CodeObjects[c].co_name

\* the frames that are already on the stack when the tracer is armed call the MSVC tool code
Callers == {"SConstruct", "SConscript"}

\* <<caller, line of the call in the caller, callee>>; the name `debug` of the MSCommon modules
\* is logging's Logger.debug when DEBUG_LOGGING and the stub of common.py otherwise
CallSites ==
    {<<c, 1, "msvc_setup_env">> : c \in Callers}
    \cup {<<c, 2, "msvc_setup_env">> : c \in Callers}
    \cup {<<c, 1, "generate">> : c \in Callers}
    \cup {<<"generate", 262, "generate">>,
          <<"generate", 270, "msvc_setup_env">>,
          <<"msvc_setup_env", 890, "script_env">>,
          <<"msvc_setup_env", 900, IF DEBUG_LOGGING THEN "logging_debug" ELSE "debug">>,
          <<"msvc_setup_env", 910, "PrependENVPath">>,
          <<"PrependENVPath", 1250, "PrependPath">>,
          <<"script_env", 700, "parse_output">>,
          <<"parse_output", 886, "listcomp">>,
          <<"parse_output", 908, "add_env">>,
          <<"logging_debug", 1434, "filter">>,
          <<"filter", 300, "get_relative_filename">>}

\* None where a module name is expected
NoModule == <<"None">>

\* modname.split('/')[-2:], padded in front with None when shorter than two
parent_leaf(modname) ==
    LET parts == split(modname, "/")
        last2 == IF Len(parts) >= 2 THEN SubSeq(parts, Len(parts) - 1, Len(parts)) ELSE parts
    IN  IF Len(last2) < 2 THEN <<NoModule>> \o last2 ELSE last2

\* a code object's file name never changes, so what the tracer derives from co_filename
\* alone is computed once per code object
relmodule_of == [c \in Codes |-> get_relative_module(co_filename(c), modulelist_trace)]

parent_leaf_of == [c \in Codes |-> parent_leaf(get_module(co_filename(c)))]

in_parent_module == [c \in Codes |-> contains(co_filename(c), PARENT_MODULE)]

relative_filename_of == [c \in Codes |-> get_relative_filename(co_filename(c), modulelist_trace)]

\* the file name display_frame_return prints
basename_of == [c \in Codes |-> LET parts == split(co_filename(c), "\\") IN parts[Len(parts)]]

(***************************************************************************)
(* _MSCOMMON_TRACE: rendering.  A line of the sink is a record; `indent`   *)
(* counts copies of FRAME_INDENT_LITERAL.                                  *)
(***************************************************************************)

BlankLine ==
    [kind |-> "blank", indent |-> 0, code |-> "", arglist |-> FALSE, location |-> FALSE,
     file |-> <<>>, lineno |-> 0, from |-> "", from_line |-> 0, arg |-> ""]

\* ' ' * n is the empty string when n is negative
IndentOf(n_indent) == IF n_indent < 0 THEN 0 ELSE n_indent

\* display_frame(stk[pos], indent, divider): the call line and, on request, the divider under it
display_frame(stk, pos, indent, divider) ==
    LET frame == stk[pos]
        filename == co_filename(frame.f_code)
        from_where ==
            IF pos = 1 THEN ""
            ELSE IF co_filename(stk[pos - 1].f_code) = filename THEN "line"
            ELSE "file:line"
        outstr ==
            [kind |-> "call", indent |-> indent, code |-> frame.f_code,
             arglist |-> DISPLAY_FUNCTION_ARGLIST, location |-> DISPLAY_FUNCTION_LOCATION,
             file |-> IF DISPLAY_FUNCTION_LOCATION THEN relative_filename_of[frame.f_code] ELSE <<>>,
             lineno |-> IF DISPLAY_FUNCTION_LOCATION THEN frame.f_lineno ELSE 0,
             from |-> IF DISPLAY_FUNCTION_LOCATION THEN from_where ELSE "",
             from_line |-> IF DISPLAY_FUNCTION_LOCATION /\ pos > 1 THEN stk[pos - 1].f_lineno ELSE 0,
             arg |-> ""]
        divstr == [BlankLine EXCEPT !.kind = "divider", !.indent = indent, !.code = frame.f_code]
    IN  <<outstr>> \o (IF divider /\ FRAME_CALLER_FRAMES > 1 THEN <<divstr>> ELSE <<>>)

\* display_frame_return(stk[pos], arg, indent)
display_frame_return(stk, pos, arg, indent) ==
    LET frame == stk[pos]
    IN  <<[kind |-> "return", indent |-> indent, code |-> frame.f_code,
           arglist |-> FALSE, location |-> DISPLAY_FUNCTION_LOCATION,
           file |-> IF DISPLAY_FUNCTION_LOCATION THEN basename_of[frame.f_code] ELSE <<>>,
           lineno |-> IF DISPLAY_FUNCTION_LOCATION THEN frame.f_lineno ELSE 0,
           from |-> "", from_line |-> 0, arg |-> arg]>>

(***************************************************************************)
(* _MSCOMMON_TRACE: the scope filter                                       *)
(***************************************************************************)

\* get_relmodule_caller_callee(frame) for frame = the top of stk: <<relmodule, caller, callee>>
get_relmodule_caller_callee(stk) ==
    IF Len(stk) = 0 THEN <<<<>>, <<NoModule, NoModule>>, <<NoModule, NoModule>>>>
    ELSE <<relmodule_of[stk[Len(stk)].f_code],
           IF Len(stk) = 1 THEN <<NoModule, NoModule>>
           ELSE parent_leaf_of[stk[Len(stk) - 1].f_code],
           parent_leaf_of[stk[Len(stk)].f_code]>>

\* a variant of is_allowed that trusts the enabled allow list without looking the pair up
is_allowed_unlisted(event, relmodule, function) ==
    IF DISPLAY_ALLFRAMES_ONEBELOW THEN TRUE
    ELSE event = "call" /\ DEBUG_ALLOWLIST_ENABLED

is_allowed(event, relmodule, function) ==
    LET pair == <<relmodule, function>>
    IN  IF DISPLAY_ALLFRAMES_ONEBELOW THEN TRUE
        ELSE IF event = "call" /\ DEBUG_ALLOWLIST_ENABLED /\ pair \in DEBUG_ALLOWLIST_FUNCTIONS THEN TRUE
        ELSE FALSE

\* a variant of is_ignored that consults the lists only (no lines 534-536)
is_ignored_when_listed(event, relmodule, function) ==
    LET pair == <<relmodule, function>>
    IN  IF event = "return"
        THEN RETURN_IGNORELIST_ENABLED /\ pair \in RETURN_IGNORELIST_FUNCTIONS
        ELSE DEBUG_IGNORELIST_ENABLED /\ pair \in DEBUG_IGNORELIST_FUNCTIONS

\* a variant of is_ignored in which DISPLAY_ALLFRAMES_ONEBELOW also switches off the lists
is_ignored_unless_allframes(event, relmodule, function) ==
    LET pair == <<relmodule, function>>
    IN  IF DISPLAY_ALLFRAMES_ONEBELOW THEN FALSE
        ELSE IF event = "return"
        THEN RETURN_IGNORELIST_ENABLED /\ pair \in RETURN_IGNORELIST_FUNCTIONS
        ELSE IF DEBUG_IGNORELIST_ENABLED /\ pair \in DEBUG_IGNORELIST_FUNCTIONS THEN TRUE
        ELSE function[1] = "<"

is_ignored(event, relmodule, function) ==
    LET pair == <<relmodule, function>>
    IN  IF event = "return"
        THEN RETURN_IGNORELIST_ENABLED /\ pair \in RETURN_IGNORELIST_FUNCTIONS
        ELSE IF DEBUG_IGNORELIST_ENABLED /\ pair \in DEBUG_IGNORELIST_FUNCTIONS THEN TRUE
        ELSE IF DISPLAY_ALLFRAMES_ONEBELOW THEN FALSE
        ELSE function[1] = "<"

(***************************************************************************)
(* _MSCOMMON_TRACE.trace_current_module(frame, event, arg), for frame =    *)
(* the top of stk.  The result holds what the call hands back (rv), the    *)
(* lines it prints, the class attributes as it leaves them and its locals. *)
(***************************************************************************)

\* a variant of the stack walk that keeps the innermost frame of the parent module (the
\* first one met) where the code keeps the outermost (the last one met)
RECURSIVE walk_innermost(_, _, _)
walk_innermost(stk, n, entry_slot) ==
    IF n = Len(stk) THEN entry_slot
    ELSE walk_innermost(stk, n + 1,
                        IF entry_slot = <<>> /\ in_parent_module[stk[Len(stk) - n].f_code]
                        THEN <<n>> ELSE entry_slot)

\* the stack walk `while f:` once n frames have been put into frame_chain; entry_slot is
\* <<>> for None and <<k>> for k
RECURSIVE walk(_, _, _)
walk(stk, n, entry_slot) ==
    IF n = Len(stk) THEN entry_slot
    ELSE walk(stk, n + 1,
              IF in_parent_module[stk[Len(stk) - n].f_code] THEN <<n>> ELSE entry_slot)

\* a variant of the loop of a new chain that puts the divider under the last frame
RECURSIVE display_chain_divider_last(_, _, _)
display_chain_divider_last(stk, offset, i) ==
    IF offset + i >= Len(stk) THEN <<>>
    ELSE display_frame(stk, offset + i + 1, i, offset + i + 1 = Len(stk))
         \o display_chain_divider_last(stk, offset, i + 1)

\* `for i, f in enumerate(frame_chain)` of a new chain, from index i on; frame_chain is
\* stk without its first `offset` frames
RECURSIVE display_chain(_, _, _)
display_chain(stk, offset, i) ==
    IF offset + i >= Len(stk) THEN <<>>
    ELSE display_frame(stk, offset + i + 1, i, i = FRAME_CALLER_FRAMES - 1)
         \o display_chain(stk, offset, i + 1)

\* `for f in frame_chain[1:gap]` of a continuation, from index j on
RECURSIVE display_missing(_, _, _, _, _)
display_missing(stk, offset, j, gap, indent) ==
    IF j >= gap \/ offset + j >= Len(stk) THEN <<>>
    ELSE display_frame(stk, offset + j + 1, indent, FALSE)
         \o display_missing(stk, offset, j + 1, gap, indent + 1)

\* a variant of the early returns of lines 543-562 that forgets the length of the last window
Unchanged_but_chain_length(rv, why) ==
    [rv |-> rv, why |-> why, lines |-> <<>>,
     ENTRY_SLOT |-> FRAME_ENTRY_SLOT, ENTRY_LOCATION |-> FRAME_ENTRY_LOCATION,
     ENTRY_DEPTH |-> FRAME_ENTRY_DEPTH, LAST_CHAINLENGTH |-> 0,
     start_new_chain |-> FALSE, entry_slot |-> 0, chain_length |-> 0, offset |-> 0,
     gap |-> 0, fill_indent |-> 0, n_indent |-> 0]

\* a variant of the early returns of lines 543-562 that always hands back the trace function
Unchanged_self(rv, why) ==
    [rv |-> "self", why |-> why, lines |-> <<>>,
     ENTRY_SLOT |-> FRAME_ENTRY_SLOT, ENTRY_LOCATION |-> FRAME_ENTRY_LOCATION,
     ENTRY_DEPTH |-> FRAME_ENTRY_DEPTH, LAST_CHAINLENGTH |-> FRAME_LAST_CHAINLENGTH,
     start_new_chain |-> FALSE, entry_slot |-> 0, chain_length |-> 0, offset |-> 0,
     gap |-> 0, fill_indent |-> 0, n_indent |-> 0]

\* a return before the stack walk: nothing printed, no attribute assigned
Unchanged(rv, why) ==
    [rv |-> rv, why |-> why, lines |-> <<>>,
     ENTRY_SLOT |-> FRAME_ENTRY_SLOT, ENTRY_LOCATION |-> FRAME_ENTRY_LOCATION,
     ENTRY_DEPTH |-> FRAME_ENTRY_DEPTH, LAST_CHAINLENGTH |-> FRAME_LAST_CHAINLENGTH,
     start_new_chain |-> FALSE, entry_slot |-> 0, chain_length |-> 0, offset |-> 0,
     gap |-> 0, fill_indent |-> 0, n_indent |-> 0]

\* a variant of lines 598-599 that separates every new chain, the first one too
chain_separator_always == <<BlankLine>>

\* lines 598-599: the blank line before a new chain
chain_separator == IF FRAME_ENTRY_LOCATION # <<>> THEN <<BlankLine>> ELSE <<>>

\* a variant of lines 633-635 that writes the return line at the indentation of the call
return_indent_of_call(n_indent) == IndentOf(n_indent)

\* lines 633-635: indent += cls.FRAME_INDENT_LITERAL for a return
return_indent(n_indent) == IndentOf(n_indent) + 1

\* a variant of line 640 that saves the window length only when a chain begins
saved_chain_length_of_entry(start_new_chain, chain_length) ==
    IF start_new_chain THEN chain_length ELSE FRAME_LAST_CHAINLENGTH

\* line 640: cls.FRAME_LAST_CHAINLENGTH = len(frame_chain)
saved_chain_length(start_new_chain, chain_length) == chain_length

\* a variant of line 610 that saves the slot as an index from the root of the window
saved_entry_slot_from_root(entry_slot, chain_length) == chain_length - 1 - entry_slot

\* line 610: cls.FRAME_ENTRY_SLOT = entry_slot
saved_entry_slot(entry_slot, chain_length) == entry_slot

\* lines 586-642: the chain is new or continued, its lines are printed and FRAME_* assigned
display_lines(stk, event, arg, entry_slot, offset, chain_length, entry_location, start_new_chain, gap, fill_indent, n_indent) ==
    [rv |-> "self", why |-> "displayed",
     lines |-> IF start_new_chain
               THEN chain_separator \o display_chain(stk, offset, 0)
               ELSE (IF gap > 1
                     THEN display_missing(stk, offset, 1, gap, IndentOf(fill_indent))
                     ELSE <<>>)
                    \o (IF event = "return"
                        THEN display_frame_return(stk, Len(stk), arg, return_indent(n_indent))
                        ELSE display_frame(stk, Len(stk), IndentOf(n_indent), FALSE)),
     ENTRY_SLOT |-> IF start_new_chain THEN saved_entry_slot(entry_slot, chain_length)
                    ELSE FRAME_ENTRY_SLOT,
     ENTRY_LOCATION |-> IF start_new_chain THEN entry_location ELSE FRAME_ENTRY_LOCATION,
     ENTRY_DEPTH |-> IF start_new_chain THEN chain_length - 1 ELSE FRAME_ENTRY_DEPTH,
     LAST_CHAINLENGTH |-> saved_chain_length(start_new_chain, chain_length),
     start_new_chain |-> start_new_chain, entry_slot |-> entry_slot,
     chain_length |-> chain_length, offset |-> offset,
     gap |-> IF start_new_chain THEN 0 ELSE gap,
     fill_indent |-> IF ~start_new_chain /\ gap > 1 THEN fill_indent ELSE 0,
     n_indent |-> IF start_new_chain THEN 0 ELSE n_indent]

\* a variant of lines 586-592 that starts a chain at every event of an entry frame
\* (entry_slot 0) where the code compares the entry location
chain_state_per_entry(stk, event, arg, entry_slot, offset, chain_length, entry_location) ==
    display_lines(stk, event, arg, entry_slot, offset, chain_length, entry_location,
                  IF FRAME_ENTRY_LOCATION = <<>> THEN TRUE
                  ELSE event = "call" /\ entry_slot = 0,
                  chain_length - FRAME_LAST_CHAINLENGTH,
                  FRAME_ENTRY_DEPTH
                      + (entry_slot - FRAME_ENTRY_SLOT - (chain_length - FRAME_LAST_CHAINLENGTH))
                      + 1,
                  FRAME_ENTRY_DEPTH + (entry_slot - FRAME_ENTRY_SLOT))

\* lines 586-592 and the indents of lines 614-628
chain_state(stk, event, arg, entry_slot, offset, chain_length, entry_location) ==
    display_lines(stk, event, arg, entry_slot, offset, chain_length, entry_location,
                  IF FRAME_ENTRY_LOCATION = <<>> THEN TRUE
                  ELSE entry_location # FRAME_ENTRY_LOCATION,
                  chain_length - FRAME_LAST_CHAINLENGTH,
                  FRAME_ENTRY_DEPTH
                      + (entry_slot - FRAME_ENTRY_SLOT - (chain_length - FRAME_LAST_CHAINLENGTH))
                      + 1,
                  FRAME_ENTRY_DEPTH + (entry_slot - FRAME_ENTRY_SLOT))

\* a variant of lines 577-584 that keeps the whole walked stack as the window
frame_chain_from_root(stk, event, arg, entry_slot, offset) ==
    chain_state(stk, event, arg, entry_slot, 0, Len(stk),
                <<<<co_filename(stk[1].f_code), stk[1].f_lineno>>>>)

\* lines 577-584: frame_chain is stk without its first `offset` frames
frame_chain(stk, event, arg, entry_slot, offset) ==
    chain_state(stk, event, arg, entry_slot, offset, Len(stk) - offset,
                <<<<co_filename(stk[offset + 1].f_code), stk[offset + 1].f_lineno>>>>)

\* a variant of lines 577-584 whose window never holds more than FRAME_CALLER_FRAMES + 1
\* frames
display_walked_capped(stk, event, arg, found) ==
    IF found = <<>>
    THEN [Unchanged("None", "TypeError") EXCEPT !.chain_length = Len(stk)]
    ELSE frame_chain(stk, event, arg, found[1],
                     Len(stk) - 1 - (IF FRAME_CALLER_FRAMES >= Len(stk)
                                     THEN Len(stk) - 1 ELSE FRAME_CALLER_FRAMES))

\* the part of trace_current_module after the scope filter, `found` being the entry_slot
\* of the stack walk
display_walked(stk, event, arg, found) ==
    IF found = <<>>
    THEN \* entry_slot + FRAME_CALLER_FRAMES with entry_slot None: TypeError
         [Unchanged("None", "TypeError") EXCEPT !.chain_length = Len(stk)]
    ELSE frame_chain(stk, event, arg, found[1],
                     Len(stk) - 1 - (IF found[1] + FRAME_CALLER_FRAMES >= Len(stk)
                                     THEN Len(stk) - 1 ELSE found[1] + FRAME_CALLER_FRAMES))

display_event(stk, event, arg) == display_walked(stk, event, arg, walk(stk, 0, <<>>))

\* a variant of lines 540-562 in which DISPLAY_ALLFRAMES_ONEBELOW also lifts the test of
\* the caller (line 553)
scope_filter_any_depth(stk, event, arg, function, rcc) ==
    IF event \notin FRAME_TRACE_EVENTS THEN Unchanged("self", "event")
    ELSE IF rcc[3][1] # PARENT_MODULE /\ rcc[2][1] # PARENT_MODULE
            /\ ~DISPLAY_ALLFRAMES_ONEBELOW
    THEN Unchanged("self", "depth")
    ELSE IF rcc[3][1] # PARENT_MODULE /\ ~is_allowed(event, rcc[1], function)
    THEN Unchanged("self", "allow")
    ELSE IF is_ignored(event, rcc[1], function)
    THEN Unchanged("None", "ignore")
    ELSE display_event(stk, event, arg)

\* lines 540-562 for rcc = <<relmodule, caller, callee>>
scope_filter(stk, event, arg, function, rcc) ==
    IF event \notin FRAME_TRACE_EVENTS THEN Unchanged("self", "event")
    ELSE IF rcc[3][1] # PARENT_MODULE /\ rcc[2][1] # PARENT_MODULE
    THEN Unchanged("self", "depth")
    ELSE IF rcc[3][1] # PARENT_MODULE /\ ~is_allowed(event, rcc[1], function)
    THEN Unchanged("self", "allow")
    ELSE IF is_ignored(event, rcc[1], function)
    THEN Unchanged("None", "ignore")
    ELSE display_event(stk, event, arg)

trace_current_module(stk, event, arg) ==
    scope_filter(stk, event, arg, co_name(stk[Len(stk)].f_code),
                 get_relmodule_caller_callee(stk))

(***************************************************************************)
(* The tracer at work: the interpreter delivers the notifications of       *)
(* sys.settrace(trace_current_module) while the traced program runs.       *)
(***************************************************************************)

MaxEvents == 6

MaxDepth == 4

ExtraCallers == 1

\* the numbers of caller frames already on the stack when the tracer is armed
CallerDepths ==
    {1, FRAME_CALLER_FRAMES - 1, FRAME_CALLER_FRAMES, FRAME_CALLER_FRAMES + ExtraCallers}

\* SConstruct's module code and under it nested SConscript() calls, none of them traced
CallerStack(depth) ==
    [i \in 1..depth |->
        IF i = 1
        THEN [f_code |-> "SConstruct", f_lineno |-> 1, f_trace |-> FALSE, shown_at |-> 0]
        ELSE [f_code |-> "SConscript", f_lineno |-> IF i = depth THEN 1 ELSE 530, f_trace |-> FALSE,
              shown_at |-> 0]]

NoNotification ==
    [event |-> "none", code |-> "", at |-> 0, rv |-> "self", why |-> "", nlines |-> 0,
     start_new_chain |-> FALSE, entry_slot |-> 0, chain_length |-> 0, offset |-> 0,
     gap |-> 0, fill_indent |-> 0, n_indent |-> 0]

\* the environments of the traced runs: masks 7 (unset), 0, 11 and 12
TraceRunSpecs ==
    {<<>>, <<<<"0">>>>, <<<<"\"", "1", "|", "2", "|", "8", "\"">>>>, <<<<"R", "E", "T", "U", "R", "N", "_", "V", "A", "L", "U", "E", "S", "|", "A", "L", "L", "F", "R", "A", "M", "E", "S", "_", "O", "N", "E", "B", "E", "L", "O", "W">>>>}

\* line 327: the class body of _MSCOMMON_TRACE has asked for the trace flags and got r
FlagsResolved(r) ==
    /\ _TRACEFLAGS = r.cache
    /\ resolved = <<r>>
    /\ TRACEFLAGS = r.value[1].n

TraceInit ==
    /\ TRACEFLAGS_ENV \in TraceRunSpecs
    /\ FlagsResolved(get_trace_display_traceflags(TRACEFLAGS_ENV, <<>>))
    /\ ncalls = 1
    /\ DEBUG_LOGGING \in BOOLEAN
    /\ \E depth \in CallerDepths : stack = CallerStack(depth)
    /\ FRAME_ENTRY_DEPTH = 0
    /\ FRAME_ENTRY_LOCATION = <<>>
    /\ FRAME_ENTRY_SLOT = -1
    /\ FRAME_LAST_CHAINLENGTH = 0
    /\ out = <<>>
    /\ tr = NoNotification
    /\ nevents = 0
    /\ NoLogFiles

\* the handler has run for `event` on a frame of code `code`: its prints and assignments;
\* tr.at numbers the call or return the notification belongs to
Handled(res, event, code) ==
    /\ out' = out \o res.lines
    /\ FRAME_ENTRY_SLOT' = res.ENTRY_SLOT
    /\ FRAME_ENTRY_LOCATION' = res.ENTRY_LOCATION
    /\ FRAME_ENTRY_DEPTH' = res.ENTRY_DEPTH
    /\ FRAME_LAST_CHAINLENGTH' = res.LAST_CHAINLENGTH
    /\ tr' = [event |-> event, code |-> code,
              at |-> IF event \in {"call", "return"} THEN nevents + 1 ELSE nevents,
              rv |-> res.rv, why |-> res.why,
              nlines |-> Len(res.lines), start_new_chain |-> res.start_new_chain,
              entry_slot |-> res.entry_slot, chain_length |-> res.chain_length,
              offset |-> res.offset, gap |-> res.gap, fill_indent |-> res.fill_indent,
              n_indent |-> res.n_indent]

\* the number, among `lines`, of the line display_frame wrote for the current frame: the
\* last one, or the one above the divider
own_line(lines) ==
    IF lines[Len(lines)].kind = "divider" THEN Len(lines) - 1 ELSE Len(lines)

\* the frame of `callee` is on stk and the global trace function has returned res for its
\* 'call' notification: res.rv becomes the frame's local trace function
Entered(stk, callee, res) ==
    /\ stack' = [stk EXCEPT ![Len(stk)].f_trace = (res.rv = "self"),
                            ![Len(stk)].shown_at = IF res.why = "displayed"
                                                   THEN Len(out) + own_line(res.lines)
                                                   ELSE 0]
    /\ Handled(res, "call", callee)

Pushed(stk, callee) == Entered(stk, callee, trace_current_module(stk, "call", "None"))

\* the top frame calls `callee` from `line`: a new frame, and the 'call' notification
Call(line, callee) ==
    /\ nevents < MaxEvents
    /\ Cardinality({i \in 1..Len(stack) : stack[i].f_code \notin Callers}) < MaxDepth
    /\ <<stack[Len(stack)].f_code, line, callee>> \in CallSites
    /\ Pushed(Append([stack EXCEPT ![Len(stack)].f_lineno = line],
                     [f_code |-> callee, f_lineno |-> CodeObjects[callee].co_firstlineno,
                      f_trace |-> FALSE, shown_at |-> 0]),
              callee)
    /\ nevents' = nevents + 1
    /\ UNCHANGED <<flagvars, filevars, TRACEFLAGS, DEBUG_LOGGING>>

\* the top frame returns: the 'return' notification of its local trace function, if it has one
Return ==
    /\ nevents < MaxEvents
    /\ stack[Len(stack)].f_code \notin Callers
    /\ LET frame == stack[Len(stack)]
       IN  IF frame.f_trace
           THEN Handled(trace_current_module(stack, "return", CodeObjects[frame.f_code].returns),
                        "return", frame.f_code)
           ELSE UNCHANGED <<out, FRAME_ENTRY_SLOT, FRAME_ENTRY_LOCATION, FRAME_ENTRY_DEPTH,
                            FRAME_LAST_CHAINLENGTH, tr>>
    /\ stack' = SubSeq(stack, 1, Len(stack) - 1)
    /\ nevents' = nevents + 1
    /\ UNCHANGED <<flagvars, filevars, TRACEFLAGS, DEBUG_LOGGING>>

\* the local trace function has returned res for `event`: res.rv is the frame's local trace
\* function from now on
Notified(event, res) ==
    /\ stack' = [stack EXCEPT ![Len(stack)].f_trace = (res.rv = "self")]
    /\ Handled(res, event, stack[Len(stack)].f_code)

\* a 'line' or 'exception' notification of the top frame's local trace function
OtherEvent(event) ==
    /\ stack[Len(stack)].f_trace
    /\ tr.event \in {"call", "return"}
    /\ Notified(event, trace_current_module(stack, event, "None"))
    /\ UNCHANGED <<flagvars, filevars, TRACEFLAGS, DEBUG_LOGGING, nevents>>

TraceNext ==
    \/ \E site \in CallSites : Call(site[2], site[3])
    \/ Return
    \/ \E event \in {"line", "exception"} : OtherEvent(event)

Spec == TraceInit /\ [][TraceNext]_vars

(***************************************************************************)
(* Properties of the tracer, checked under Spec.                           *)
(***************************************************************************)

\* the code objects of the traced program whose file lies in the MSCommon directory
HomeCodes ==
    {"msvc_setup_env", "script_env", "parse_output", "listcomp", "add_env", "debug",
     "filter", "get_relative_filename"}

\* what a line shows of the chain: its kind, its indentation and its frame
Shape(line) == <<line.kind, line.indent, line.code>>

Shapes(lines) == [i \in 1..Len(lines) |-> Shape(lines[i])]

IsReturnLine(line) == line.kind = "return"

\* the lines written by the last notification
LastLines == SubSeq(out, Len(out) - tr.nlines + 1, Len(out))

\* the window of a new chain begun with `frames` as the last frames of the stack: one call
\* line per frame from indentation 0, the divider under the line of index 4
WindowShapes(frames) ==
    LET calls == [i \in 1..Len(frames) |-> <<"call", i - 1, frames[i].f_code>>]
    IN  IF Len(calls) < FRAME_CALLER_FRAMES THEN calls
        ELSE SubSeq(calls, 1, FRAME_CALLER_FRAMES)
             \o << <<"divider", FRAME_CALLER_FRAMES - 1, frames[FRAME_CALLER_FRAMES].f_code>> >>
             \o SubSeq(calls, FRAME_CALLER_FRAMES + 1, Len(calls))

\* the last n frames of stk
LastFrames(stk, n) == SubSeq(stk, Len(stk) - n + 1, Len(stk))

\* msvc_setup_env called script_env, which called parse_output, and all three have
\* returned, the three returns displayed: these are the six notifications of the run
NestedCallsDone ==
    /\ nevents = 6
    /\ LET returns == SelectSeq(out, IsReturnLine)
       IN  [i \in 1..Len(returns) |-> returns[i].code]
               = <<"parse_output", "script_env", "msvc_setup_env">>

\* w caller frames are in the window of the chain that msvc_setup_env begins
NestedCallsOutput(w) ==
    WindowShapes(LastFrames(stack, w)
                 \o <<[f_code |-> "msvc_setup_env", f_lineno |-> 0, f_trace |-> TRUE, shown_at |-> 0]>>)
    \o << <<"call", w + 1, "script_env">>, <<"call", w + 2, "parse_output">>,
          <<"return", w + 3, "parse_output">>, <<"return", w + 2, "script_env">>,
          <<"return", w + 1, "msvc_setup_env">> >>

\* C1 (amended): with return values displayed and nothing traced before, the nested calls
\* A -> B -> C of the home module, made under k >= 1 caller frames, write one chain and no
\* blank line: the min(k, 5) nearest caller frames from indentation 0, the call of A at
\* indentation w = min(k, 5), of B at w + 1, of C at w + 2, then the return of C at w + 3,
\* of B at w + 2 and of A at w + 1; the divider is written once, under the window line of
\* indentation 4 (only when that line exists), never between C's call and C's return.
C1_NestedCalls ==
    NestedCallsDone
        => Shapes(out) = NestedCallsOutput(Min({Len(stack), FRAME_CALLER_FRAMES}))

\* the nested calls are done under five caller frames: the divider is in the output
C1_Witness ==
    /\ NestedCallsDone
    /\ Len(stack) = FRAME_CALLER_FRAMES
    /\ \E i \in 1..Len(out) : out[i].kind = "divider"

\* C1 as stated: the lines of A, B and C and the divider are call A at indentation 0,
\* call B at 1, call C at 2, the divider, return C at 3, return B at 2, return A at 1
C1_AsStated ==
    NestedCallsDone
        => LET IsOwn(line) ==
                   line.kind = "divider"
                   \/ line.code \in {"msvc_setup_env", "script_env", "parse_output"}
               own == SelectSeq(out, IsOwn)
           IN  [i \in 1..Len(own) |->
                   IF own[i].kind = "divider" THEN <<"divider">>
                   ELSE <<own[i].kind, own[i].indent, own[i].code>>]
               = << <<"call", 0, "msvc_setup_env">>, <<"call", 1, "script_env">>,
                    <<"call", 2, "parse_output">>, <<"divider">>,
                    <<"return", 3, "parse_output">>, <<"return", 2, "script_env">>,
                    <<"return", 1, "msvc_setup_env">> >>

\* the last notification was the displayed call of msvc_setup_env by a frame outside the
\* home module, no home frame being on the stack under it, and lines had been written
\* before it: an earlier chain is complete
TopLevelCall ==
    /\ tr.event = "call"
    /\ tr.why = "displayed"
    /\ tr.code = "msvc_setup_env"
    /\ \A i \in 1..(Len(stack) - 1) : stack[i].f_code \notin HomeCodes
    /\ Len(out) > tr.nlines

\* the call lines of msvc_setup_env written so far
EntryCallLines ==
    LET IsEntryCall(line) == line.kind = "call" /\ line.code = "msvc_setup_env"
    IN  SelectSeq(out, IsEntryCall)

\* ... and the call before it was made from another line of the caller
TopLevelCallElsewhere ==
    /\ TopLevelCall
    /\ DISPLAY_FUNCTION_LOCATION
    /\ Len(EntryCallLines) >= 2
    /\ EntryCallLines[Len(EntryCallLines)].from_line
           # EntryCallLines[Len(EntryCallLines) - 1].from_line

\* the window of the top frame of stk: the frame and its 5 nearest callers
WindowFrames(stk) == LastFrames(stk, Min({Len(stk), FRAME_CALLER_FRAMES + 1}))

\* C2 (amended): once a chain is complete, a later top-level call into the home module
\* starts a new chain (one blank line, then one line per frame of the window from
\* indentation 0 again) exactly when the file and line of the first frame of its window
\* differ from those saved when the current chain began; otherwise, as when the call comes
\* from the same line or from under five or more caller frames whose outermost window
\* frame has not moved, it continues the chain: no blank line, only call lines, the last
\* one the line of the call (before it one line per frame by which the window has grown
\* beyond one since the last displayed notification).
C2_NewChainWhenRootMoved ==
    [][(nevents' = nevents + 1 /\ TopLevelCall')
          => LET root == WindowFrames(stack')[1]
                 written == SubSeq(out', Len(out) + 1, Len(out'))
             IN  IF <<<<co_filename(root.f_code), root.f_lineno>>>> # FRAME_ENTRY_LOCATION
                 THEN /\ tr'.start_new_chain
                      /\ written[1] = BlankLine
                      /\ Shapes(Tail(written)) = WindowShapes(WindowFrames(stack'))
                 ELSE /\ ~tr'.start_new_chain
                      /\ \A i \in 1..Len(written) : written[i].kind = "call"
                      /\ Len(written) = Max({1, Len(WindowFrames(stack')) - FRAME_LAST_CHAINLENGTH})
                      /\ written[Len(written)].code = "msvc_setup_env"]_vars

\* a second top-level call, made from another line under five or more caller frames, has
\* continued the chain of the first: no blank line in the output
C2_Witness ==
    /\ TopLevelCallElsewhere
    /\ ~tr.start_new_chain
    /\ \A i \in 1..Len(out) : out[i] # BlankLine

\* C2 as stated: such a call, made from another place than the one before, always starts
\* a new chain, with one blank line and then every frame of the window
C2_AsStated ==
    TopLevelCallElsewhere
        => /\ tr.start_new_chain
           /\ LastLines[1] = BlankLine
           /\ Shapes(Tail(LastLines)) = WindowShapes(WindowFrames(stack))

\* the (module, function) pair of a code object, as the lists name it
Pair(code) == <<relmodule_of[code], co_name(code)>>

\* the last notification was of a call or a return and nothing has happened since
Fresh == tr.at = nevents /\ tr.event \in {"call", "return"}

\* the code of the frame that called, or is returned to by, the frame of a fresh notification
CallerCode ==
    IF tr.event = "return" THEN stack[Len(stack)].f_code ELSE stack[Len(stack) - 1].f_code

Outside(code) == code \notin HomeCodes

\* the pair of `code` is on the list that is_ignored consults for `event`
Ignored(event, code) ==
    IF event = "return" THEN Pair(code) \in RETURN_IGNORELIST_FUNCTIONS
    ELSE Pair(code) \in DEBUG_IGNORELIST_FUNCTIONS

\* C3 (amended): each ignore list is consulted for the events of its own kind and for the
\* frame of the event only.  At every value of the trace flags, AllFramesOneBelow
\* included, no return line is ever written for a pair on the returns-ignore list, and the
\* notification of a call (of a return) whose own pair is on the calls-ignore list (the
\* returns-ignore list) writes no line at all; a pair that is only on the returns-ignore
\* list still gets its call line.
C3_IgnoreListsPerEvent ==
    /\ \A i \in 1..Len(out) :
           out[i].kind = "return" => Pair(out[i].code) \notin RETURN_IGNORELIST_FUNCTIONS
    /\ (Fresh /\ Ignored(tr.event, tr.code)) => tr.nlines = 0 /\ tr.why # "displayed"

\* in AllFramesOneBelow mode the return of a frame on the returns-ignore list has been
\* notified and ignored, the call line of that frame being in the output
C3_Witness ==
    /\ Fresh
    /\ DISPLAY_ALLFRAMES_ONEBELOW
    /\ tr.event = "return"
    /\ tr.why = "ignore"
    /\ \E i \in 1..Len(out) : out[i].kind = "call" /\ out[i].code = tr.code

\* C3 as stated: no line of the output is about a pair that is on an ignore list
C3_AsStated ==
    \A i \in 1..Len(out) :
        out[i].kind # "blank"
            => Pair(out[i].code) \notin (RETURN_IGNORELIST_FUNCTIONS \cup DEBUG_IGNORELIST_FUNCTIONS)

\* C4: an event whose callee is outside the home module is displayed only if its caller is
\* a frame of the home module and, when AllFramesOneBelow is not set, only if its pair is
\* on the (enabled) allow list; with caller and callee both outside it is never displayed.
C4_OneBelowAllowListed ==
    (Fresh /\ Outside(tr.code) /\ tr.why = "displayed")
        => /\ ~Outside(CallerCode)
           /\ ~DISPLAY_ALLFRAMES_ONEBELOW
                  => DEBUG_ALLOWLIST_ENABLED /\ Pair(tr.code) \in DEBUG_ALLOWLIST_FUNCTIONS

\* without AllFramesOneBelow, the call of logging's debug by msvc_setup_env is displayed
C4_Witness ==
    /\ Fresh
    /\ ~DISPLAY_ALLFRAMES_ONEBELOW
    /\ tr.code = "logging_debug"
    /\ CallerCode = "msvc_setup_env"
    /\ tr.why = "displayed"

\* a call, or a return when return values are displayed
TraceEvent == tr.event = "call" \/ (tr.event = "return" /\ DISPLAY_RETURN_VALUES)

\* C5 (amended): AllFramesOneBelow lifts the allow list (and the rejection of synthetic
\* frames), not the one-caller-level restriction: with the flag set, a call or return
\* event whose callee is outside the home module is displayed exactly when its immediate
\* caller is a frame of the home module and its pair is not on the ignore list of the
\* event's kind.
C5_AllFramesOneBelow ==
    (Fresh /\ TraceEvent /\ DISPLAY_ALLFRAMES_ONEBELOW /\ Outside(tr.code))
        => (tr.why = "displayed" <=> (~Outside(CallerCode) /\ ~Ignored(tr.event, tr.code)))

\* in AllFramesOneBelow mode a frame outside the home module has called another one, two
\* frames below the home module, and the call has been rejected for its depth
C5_Witness ==
    /\ Fresh
    /\ TraceEvent
    /\ DISPLAY_ALLFRAMES_ONEBELOW
    /\ tr.code = "PrependPath"
    /\ CallerCode = "PrependENVPath"
    /\ tr.why = "depth"

\* C5 as stated: with AllFramesOneBelow set, an event whose callee is outside the home
\* module is displayed whatever its caller is, unless an ignore list rejects it
C5_AsStated ==
    (Fresh /\ TraceEvent /\ DISPLAY_ALLFRAMES_ONEBELOW /\ Outside(tr.code)
     /\ ~Ignored(tr.event, tr.code))
        => tr.why = "displayed"

ChainState ==
    <<FRAME_ENTRY_SLOT, FRAME_ENTRY_LOCATION, FRAME_ENTRY_DEPTH, FRAME_LAST_CHAINLENGTH>>

\* this step has delivered a notification to the observer
Delivered == tr'.at = nevents' /\ <<tr, nevents>>' # <<tr, nevents>>

\* C6: with ReturnValues clear no return line is ever written and a return notification
\* changes nothing of the chain state; at every value of the flags a line or exception
\* notification writes nothing and changes nothing of the chain state; in all these cases
\* the observer hands itself back as the continuation.
C6_OnlyConfiguredEvents ==
    /\ [](~DISPLAY_RETURN_VALUES => \A i \in 1..Len(out) : out[i].kind # "return")
    /\ [][(/\ Delivered
           /\ \/ tr'.event \in {"line", "exception"}
              \/ tr'.event = "return" /\ ~DISPLAY_RETURN_VALUES)
             => /\ out' = out
                /\ ChainState' = ChainState
                /\ tr'.rv = "self"]_vars

\* with ReturnValues clear a displayed frame has returned: the return was notified
C6_Witness ==
    /\ Fresh
    /\ ~DISPLAY_RETURN_VALUES
    /\ tr.event = "return"
    /\ tr.code \in HomeCodes
    /\ Len(out) > 0

\* this step delivers a call or return notification that the handler displays
Displayed == nevents' = nevents + 1 /\ tr'.at = nevents' /\ tr'.why = "displayed"

\* the stack the handler of this step walks: a return is notified before its frame is popped
WalkedStack == IF tr'.event = "return" THEN stack ELSE stack'

\* the file and line of the first frame of the window of this step
WindowLocation ==
    <<co_filename(WalkedStack[tr'.offset + 1].f_code), WalkedStack[tr'.offset + 1].f_lineno>>

\* the lines this step writes
Written == SubSeq(out', Len(out) + 1, Len(out'))

\* C14: a displayed event starts a new chain exactly when nothing has been displayed yet or
\* the file and line of its window's first frame differ from the stored entry location,
\* which is the location of the first frame of the chain's first window; a blank line is
\* written exactly when a new chain starts after another, as the first line of the step.
\* So the output never begins or ends with a blank line and never has two in a row.
C14_BlankLineBetweenChains ==
    /\ [](/\ (out = <<>>) = (FRAME_ENTRY_LOCATION = <<>>)
          /\ out # <<>> => out[1] # BlankLine /\ out[Len(out)] # BlankLine
          /\ \A i \in 1..(Len(out) - 1) : out[i] # BlankLine \/ out[i + 1] # BlankLine)
    /\ [][Displayed
          => /\ tr'.start_new_chain = (out = <<>> \/ <<WindowLocation>> # FRAME_ENTRY_LOCATION)
             /\ FRAME_ENTRY_LOCATION'
                    = IF tr'.start_new_chain THEN <<WindowLocation>> ELSE FRAME_ENTRY_LOCATION
             /\ Written # <<>>
             /\ (Written[1] = BlankLine) = (tr'.start_new_chain /\ out # <<>>)
             /\ \A i \in 2..Len(Written) : Written[i] # BlankLine]_vars

\* three chains have been displayed, with a blank line before the second and the third only
C14_Witness ==
    /\ Fresh
    /\ tr.why = "displayed"
    /\ tr.start_new_chain
    /\ Cardinality({i \in 1..Len(out) : out[i] = BlankLine}) = 2
    /\ \E i \in 1..Len(out) : out[i] # BlankLine /\ out[i].kind = "return"

\* the distances from the current frame (0) of the home-module frames that the handler of
\* the last notification walked; a returning frame has left the stack since
HomeDistances ==
    IF tr.event = "return"
    THEN {0 : c \in {tr.code} \cap HomeCodes} \cup {n \in 1..Len(stack) : stack[Len(stack) - n + 1].f_code \in HomeCodes}
    ELSE {n \in 0..(Len(stack) - 1) : stack[Len(stack) - n].f_code \in HomeCodes}

\* the number of frames the handler of the last notification walked
WalkedLength == IF tr.event = "return" THEN Len(stack) + 1 ELSE Len(stack)

\* C15 (amended): when the home module recurs in the walked stack, the home-module position
\* used for windowing and indentation is that of the outermost home-module frame, the one
\* nearest the stack root, counted in frames from the current frame: the window reaches
\* FRAME_CALLER_FRAMES frames above it, and a continuation indents the current frame by the
\* entry depth plus the difference between that position and the stored entry slot.
C15_OutermostHomeFrame ==
    (Fresh /\ tr.why = "displayed")
        => /\ HomeDistances # {}
           /\ tr.entry_slot = Max(HomeDistances)
           /\ tr.chain_length
                  = Min({Max(HomeDistances) + FRAME_CALLER_FRAMES, WalkedLength - 1}) + 1
           /\ ~tr.start_new_chain
                  => tr.n_indent = FRAME_ENTRY_DEPTH + Max(HomeDistances) - FRAME_ENTRY_SLOT

\* a displayed notification of a frame with two home-module frames above it
C15_Witness ==
    /\ Fresh
    /\ tr.why = "displayed"
    /\ Cardinality(HomeDistances) = 3
    /\ tr.entry_slot = 2
    /\ ~tr.start_new_chain

\* C15 as stated: the position used is that of the innermost home-module frame.
C15_AsStated ==
    (Fresh /\ tr.why = "displayed" /\ Cardinality(HomeDistances) > 1)
        => tr.entry_slot = Min(HomeDistances)

\* the call lines among the lines written by the last notification
LastCallLines == SelectSeq(LastLines, LAMBDA line : line.kind = "call")

\* C16 (amended): for every displayed event the window holds at least the current frame and
\* at most FRAME_CALLER_FRAMES frames above the outermost home-module frame, that frame and
\* the frames below it: its length is between 1 and entry_slot + FRAME_CALLER_FRAMES + 1,
\* and is that maximum whenever the stack is that deep, so it exceeds FRAME_CALLER_FRAMES + 1
\* when home-module frames nest under FRAME_CALLER_FRAMES or more callers.  A new chain
\* writes one call line per frame of the window.
C16_WindowLength ==
    (Fresh /\ tr.why = "displayed")
        => /\ tr.chain_length >= 1
           /\ tr.chain_length <= tr.entry_slot + FRAME_CALLER_FRAMES + 1
           /\ tr.chain_length = Min({WalkedLength, tr.entry_slot + FRAME_CALLER_FRAMES + 1})
           /\ FRAME_LAST_CHAINLENGTH = tr.chain_length
           /\ tr.start_new_chain => Len(LastCallLines) = tr.chain_length

\* a window of eight frames: five callers and three nested home-module frames
C16_Witness ==
    /\ Fresh
    /\ tr.why = "displayed"
    /\ tr.entry_slot = 2
    /\ tr.chain_length = FRAME_CALLER_FRAMES + 3
    /\ Len(stack) >= tr.chain_length

\* C16 as stated: the window never holds more than FRAME_CALLER_FRAMES + 1 frames.
C16_AsStated ==
    (Fresh /\ tr.why = "displayed")
        => tr.chain_length >= 1 /\ tr.chain_length <= FRAME_CALLER_FRAMES + 1

\* the call lines of the window that began the current chain, root first: the first
\* FRAME_ENTRY_DEPTH + 1 call lines after the last blank line
ChainWindow ==
    LET start == Max({0} \cup {i \in 1..Len(out) : out[i] = BlankLine})
        calls == SelectSeq(SubSeq(out, start + 1, Len(out)), LAMBDA line : line.kind = "call")
    IN  SubSeq(calls, 1, FRAME_ENTRY_DEPTH + 1)

\* C17 (amended): once a chain has been displayed, the stored entry_slot, taken as a number
\* of frames counted back from the last frame of that chain's first displayed window (that
\* is, root-first index entry_depth - entry_slot), designates a frame of the home module,
\* the outermost one of the window.
C17_EntrySlotFromLeaf ==
    out # <<>>
        => /\ FRAME_ENTRY_SLOT >= 0
           /\ FRAME_ENTRY_SLOT <= FRAME_ENTRY_DEPTH
           /\ Len(ChainWindow) = FRAME_ENTRY_DEPTH + 1
           /\ ChainWindow[FRAME_ENTRY_DEPTH - FRAME_ENTRY_SLOT + 1].code \in HomeCodes
           /\ \A i \in 1..(FRAME_ENTRY_DEPTH - FRAME_ENTRY_SLOT) :
                  ChainWindow[i].code \notin HomeCodes

\* a chain whose first window held five callers above the home-module frame
C17_Witness ==
    /\ out # <<>>
    /\ FRAME_ENTRY_DEPTH = FRAME_CALLER_FRAMES
    /\ FRAME_ENTRY_SLOT = 0
    /\ ChainWindow[FRAME_CALLER_FRAMES + 1].code = "msvc_setup_env"
    /\ ChainWindow[1].code \in Callers

\* C17 as stated: the stored entry_slot is the root-first index of a home-module frame of
\* the chain's first displayed window.
C17_AsStated ==
    out # <<>>
        => /\ FRAME_ENTRY_SLOT + 1 \in 1..Len(ChainWindow)
           /\ ChainWindow[FRAME_ENTRY_SLOT + 1].code \in HomeCodes

\* the code objects of the frames the handler of the last notification walked, root first
WalkedCodes ==
    [i \in 1..WalkedLength |-> IF i <= Len(stack) THEN stack[i].f_code ELSE tr.code]

\* the last notification continued a chain whose window had grown by more than one frame
GapFilled == Fresh /\ tr.why = "displayed" /\ ~tr.start_new_chain /\ tr.gap > 1

\* C18: in a continuation with gap > 1, the gap - 1 lines written before the line of the
\* current frame are those of the gap - 1 frames directly above the current frame (the
\* frames entered since the window last had FRAME_LAST_CHAINLENGTH frames), each shown with
\* its own code and, when locations are displayed, its own current line.
C18_AsStated ==
    GapFilled
        => /\ tr.nlines = tr.gap
           /\ \A j \in 1..(tr.gap - 1) :
                  /\ LastLines[j].code = WalkedCodes[WalkedLength - tr.gap + j]
                  /\ DISPLAY_FUNCTION_LOCATION
                         => LastLines[j].lineno = stack[WalkedLength - tr.gap + j].f_lineno

\* the positions in out of the call lines of `code` written since the current chain began
ChainCallLines(code) ==
    {k \in 1..Len(out) :
        /\ out[k].kind = "call"
        /\ out[k].code = code
        /\ \A i \in k..Len(out) : out[i] # BlankLine}

\* C19: in a continuation the call line of the current frame is indented entry_depth +
\* (home-module position - entry_slot) units and a return line one unit further; so the
\* return line of a frame is one unit deeper than the call line written for that frame
\* earlier in the same chain, whether that line was written by a continuation or as the
\* last line of the window that began the chain.
C19_ReturnOneDeeper ==
    (Fresh /\ tr.why = "displayed" /\ ~tr.start_new_chain)
        => LET last == out[Len(out)]
               units == FRAME_ENTRY_DEPTH + (Max(HomeDistances) - FRAME_ENTRY_SLOT)
           IN  /\ last.code = tr.code
               /\ tr.event = "call" => last.kind = "call" /\ last.indent = units
               /\ tr.event = "return"
                      => /\ last.kind = "return"
                         /\ last.indent = units + 1
                         /\ ChainCallLines(tr.code) # {}
                         /\ last.indent = out[Max(ChainCallLines(tr.code))].indent + 1

\* the return of script_env, called by msvc_setup_env under five callers, is displayed at
\* indentation 7 in the chain that displayed its call at indentation 6
C19_Witness ==
    /\ Fresh
    /\ tr.why = "displayed"
    /\ ~tr.start_new_chain
    /\ tr.event = "return"
    /\ tr.code = "script_env"
    /\ out[Len(out)].indent = FRAME_CALLER_FRAMES + 2
    /\ out[Max(ChainCallLines("script_env"))].indent = FRAME_CALLER_FRAMES + 1

\* C20: the indentation depth computed for every rendered line is at least 0: the lines of
\* a new chain's window, the n_indent of a continuation's gap-fill lines (lines 618-621)
\* and the n_indent of the current frame's call or return line (lines 629-631).
C20_AsStated ==
    (Fresh /\ tr.why = "displayed")
        => /\ \A i \in 1..Len(LastLines) : LastLines[i].indent >= 0
           /\ tr.n_indent >= 0
           /\ tr.gap > 1 => tr.fill_indent >= 0

\* C21: a displayed event sets last_chain_length to the length of its window, whichever
\* branch it takes; it writes entry_slot, entry_location and entry_depth (the window length
\* less one) when it starts a new chain, and leaves the three unchanged when it continues.
C21_ChainStatePerEvent ==
    [][Displayed
          => LET window_length == Len(WalkedStack) - tr'.offset
             IN  /\ FRAME_LAST_CHAINLENGTH' = window_length
                 /\ IF tr'.start_new_chain
                    THEN /\ FRAME_ENTRY_SLOT' = tr'.entry_slot
                         /\ FRAME_ENTRY_LOCATION' = <<WindowLocation>>
                         /\ FRAME_ENTRY_DEPTH' = window_length - 1
                         /\ Len(SelectSeq(Written, LAMBDA line : line.kind = "call"))
                                = window_length
                    ELSE UNCHANGED <<FRAME_ENTRY_SLOT, FRAME_ENTRY_LOCATION,
                                     FRAME_ENTRY_DEPTH>>]_vars

\* a continuation has changed last_chain_length (a nested call displayed) and nothing else
\* of the chain state, which an earlier new chain had written
C21_Witness ==
    /\ Fresh
    /\ tr.why = "displayed"
    /\ ~tr.start_new_chain
    /\ tr.event = "call"
    /\ tr.code = "script_env"
    /\ FRAME_LAST_CHAINLENGTH = FRAME_ENTRY_DEPTH + 2
    /\ FRAME_ENTRY_SLOT = 0
    /\ FRAME_ENTRY_LOCATION # <<>>

\* the last notification is one that the observer is to reject: its event kind is not
\* configured, or neither its frame nor the caller is in the home module, or its frame is
\* outside the home module and not allow-listed, or its pair is on the ignore list of its
\* event kind
Rejected ==
    \/ ~TraceEvent
    \/ Outside(tr.code) /\ Outside(CallerCode)
    \/ /\ Outside(tr.code)
       /\ ~DISPLAY_ALLFRAMES_ONEBELOW
       /\ ~(tr.event = "call" /\ DEBUG_ALLOWLIST_ENABLED
            /\ Pair(tr.code) \in DEBUG_ALLOWLIST_FUNCTIONS)
    \/ Ignored(tr.event, tr.code)

\* C22: a rejected event writes no line and leaves entry_slot, entry_location, entry_depth
\* and last_chain_length as they were, so that what the observer does with the next event
\* is what it would have done had the rejected notification not been delivered.
C22_RejectedLeavesNoTrace ==
    [][(Delivered /\ Rejected') => (out' = out /\ ChainState' = ChainState)]_vars

\* a call has been rejected (not allow-listed) after a chain was displayed
C22_Witness ==
    /\ Fresh
    /\ Rejected
    /\ tr.event = "call"
    /\ Outside(tr.code)
    /\ ~Outside(CallerCode)
    /\ out # <<>>
    /\ FRAME_LAST_CHAINLENGTH > 0

\* a frame of a synthetic routine: its name begins with "<"
Synthetic(code) == co_name(code)[1] = "<"

\* C23: without AllFramesOneBelow the call of a synthetic frame is rejected, in the home
\* module too: no line is written and, for a frame of the home module, no continuation is
\* handed back.  With AllFramesOneBelow the call of a synthetic frame that is within scope
\* (in the home module, or called by a frame of it) is displayed unless its pair is on the
\* calls-ignore list.
C23_SyntheticFrames ==
    (Fresh /\ tr.event = "call" /\ Synthetic(tr.code))
        => IF ~DISPLAY_ALLFRAMES_ONEBELOW
           THEN /\ tr.nlines = 0
                /\ tr.why # "displayed"
                /\ ~Outside(tr.code) => tr.rv = "None"
           ELSE (~Outside(tr.code) \/ ~Outside(CallerCode))
                    => (tr.why = "displayed" <=> ~Ignored("call", tr.code))

\* without AllFramesOneBelow the call of the list comprehension of parse_output, a frame
\* of the home module, has been rejected
C23_Witness ==
    /\ Fresh
    /\ ~DISPLAY_ALLFRAMES_ONEBELOW
    /\ tr.event = "call"
    /\ Synthetic(tr.code)
    /\ ~Outside(tr.code)
    /\ CallerCode = "parse_output"
    /\ tr.rv = "None"
    /\ tr.nlines = 0

\* the positions of the divider lines among `lines`
Dividers(lines) == {i \in 1..Len(lines) : lines[i].kind = "divider"}

\* C24: a divider is written only by an event that starts a new chain whose window holds
\* at least FRAME_CALLER_FRAMES frames, once, right under the call line of the window frame
\* of index FRAME_CALLER_FRAMES - 1; a continuation writes none, a new chain with a
\* shorter window writes none, and no chain holds two dividers.
C24_DividerOncePerChain ==
    /\ [](\A i, j \in Dividers(out) :
              i < j => \E k \in (i + 1)..(j - 1) : out[k] = BlankLine)
    /\ [][Displayed
          => LET window_length == Len(WalkedStack) - tr'.offset
                 first == IF Written[1] = BlankLine THEN 1 ELSE 0
             IN  /\ Dividers(Written)
                        = IF tr'.start_new_chain /\ window_length >= FRAME_CALLER_FRAMES
                          THEN {first + FRAME_CALLER_FRAMES + 1} ELSE {}
                 /\ \A i \in Dividers(Written) :
                        /\ Written[i - 1].kind = "call"
                        /\ Written[i - 1].indent = FRAME_CALLER_FRAMES - 1
                        /\ Written[i - 1].code
                               = WalkedStack[tr'.offset + FRAME_CALLER_FRAMES].f_code
                        /\ Written[i].indent = Written[i - 1].indent]_vars

\* a second chain has begun with a full window: two dividers, a blank line between them,
\* and continuations in between that wrote none
C24_Witness ==
    /\ Fresh
    /\ tr.why = "displayed"
    /\ tr.start_new_chain
    /\ Cardinality(Dividers(out)) = 2
    /\ \E i \in 1..Len(out) : out[i].kind = "return"

\* C25: the call line written for the frame of a displayed call event, the last line of
\* the output, is indented window length - 1 units, in a new chain and in a continuation.
C25_AsStated ==
    (Fresh /\ tr.why = "displayed" /\ tr.event = "call")
        => LET own == IF out[Len(out)].kind = "divider" THEN out[Len(out) - 1]
                      ELSE out[Len(out)]
           IN  own.kind = "call" /\ own.code = tr.code /\ own.indent = tr.chain_length - 1

\* the root-first index, in the stack this step walks, of the outermost home-module frame
OutermostHome == Min({i \in 1..Len(WalkedStack) : WalkedStack[i].f_code \in HomeCodes})

\* the root-first index of the frame FRAME_CALLER_FRAMES caller links above the outermost
\* home-module frame, or of the stack root when there are fewer callers
WindowFirst == Max({1, OutermostHome - FRAME_CALLER_FRAMES})

\* C26: the window of a displayed event is the walked stack from the frame
\* FRAME_CALLER_FRAMES caller links above the outermost home-module frame (the stack root
\* when fewer callers exist) down to the event's own frame, every frame in between
\* included: a new chain writes one call line for each of these frames, in stack order,
\* and stores the location of the first of them; the last line of every displayed event is
\* that of the event's own frame.
C26_WindowIsSuffix ==
    [][Displayed
       => LET calls == SelectSeq(Written, LAMBDA line : line.kind = "call")
              own == SelectSeq(Written, LAMBDA line : line.kind # "divider")
          IN  /\ tr'.offset = WindowFirst - 1
              /\ tr'.chain_length = Len(WalkedStack) - WindowFirst + 1
              /\ own[Len(own)].code = WalkedStack[Len(WalkedStack)].f_code
              /\ own[Len(own)].kind = tr'.event
              /\ tr'.start_new_chain
                     => /\ Len(calls) = tr'.chain_length
                        /\ \A i \in 1..Len(calls) :
                               /\ calls[i].code = WalkedStack[WindowFirst + i - 1].f_code
                               /\ calls[i].indent = i - 1
                        /\ FRAME_ENTRY_LOCATION'
                               = <<<<co_filename(WalkedStack[WindowFirst].f_code),
                                     WalkedStack[WindowFirst].f_lineno>>>>]_vars

\* a new chain whose window leaves out the stack root: six callers above the home module
C26_Witness ==
    /\ Fresh
    /\ tr.why = "displayed"
    /\ tr.start_new_chain
    /\ tr.offset = 1
    /\ tr.chain_length = FRAME_CALLER_FRAMES + 1
    /\ Len(stack) = FRAME_CALLER_FRAMES + 2

\* the last notification got past the tests of the event kind, of the caller and callee
\* modules, of the allow list and of the ignore list
PassedFilter == Fresh /\ tr.why \notin {"event", "depth", "allow", "ignore"}

\* C27: every event that gets past the scope filter and the ignore check has a frame whose
\* file name contains the home-module name among the frames walked, namely its own frame
\* or its caller's; so the walk always ends with a home-module position, the window is
\* computed from it and the event is displayed (entry_slot + FRAME_CALLER_FRAMES never
\* fails on None).
C27_HomeFrameWalked ==
    PassedFilter
        => /\ HomeDistances \cap {0, 1} # {}
           /\ tr.why = "displayed"
           /\ tr.entry_slot \in HomeDistances
           /\ tr.chain_length >= 1

\* a displayed event of a frame outside the home module whose caller is the only
\* home-module frame of the stack
C27_Witness ==
    /\ PassedFilter
    /\ Outside(tr.code)
    /\ HomeDistances = {1}
    /\ tr.entry_slot = 1

\* the frame that this step pops, when the step is a return
Returning == stack[Len(stack)]

\* C28: a return line is written only for a frame whose own 'call' notification was
\* displayed, and the call line written then for that activation is still in the output
\* above the return line; a call rejected by the ignore list gets None for its local
\* trace function (and only such a call does), so the return of that frame is not
\* notified and writes nothing.
C28_ReturnAfterOwnCall ==
    /\ [](\A r \in 1..Len(out) :
              out[r].kind = "return"
                  => \E k \in 1..(r - 1) : out[k].kind = "call" /\ out[k].code = out[r].code)
    /\ [][(Displayed /\ tr'.event = "return")
          => /\ Returning.f_trace
             /\ Returning.shown_at \in 1..Len(out)
             /\ out[Returning.shown_at].kind = "call"
             /\ out[Returning.shown_at].code = Returning.f_code
             /\ out'[Len(out')].kind = "return"
             /\ out'[Len(out')].code = Returning.f_code]_vars
    /\ [][(nevents' = nevents + 1 /\ Len(stack') = Len(stack) + 1)
          => /\ tr'.event = "call" /\ tr'.at = nevents'
             /\ (tr'.rv = "None") = (tr'.why = "ignore")
             /\ stack'[Len(stack')].f_trace = (tr'.why # "ignore")
             /\ (stack'[Len(stack')].shown_at # 0) = (tr'.why = "displayed")]_vars
    /\ [][(nevents' = nevents + 1 /\ Len(stack') = Len(stack) - 1 /\ ~Returning.f_trace)
          => out' = out /\ tr' = tr]_vars

\* the return line of a frame is written in a later chain than its call line could be the
\* last line of: lines of other frames and a blank line have been written in between
C28_Witness ==
    /\ Fresh
    /\ tr.why = "displayed"
    /\ tr.event = "return"
    /\ out[Len(out) - 1].code # tr.code
    /\ \E i \in 1..Len(out) : out[i] = BlankLine
    /\ ~DISPLAY_ALLFRAMES_ONEBELOW

(***************************************************************************)
(* The resolver at work: the process starts with some value of             *)
(* SCONS_MSCOMMON_TRACEFLAGS in its environment (or none) and the class    *)
(* body of _MSCOMMON_TRACE, or any later caller, asks for the trace flags. *)
(***************************************************************************)

MaxQuoteLayers == 2

MaxResolveCalls == 2

W_TRACE_DISPLAY_ == <<"T", "R", "A", "C", "E", "_", "D", "I", "S", "P", "L", "A", "Y", "_">>

\* the short names of the four flags, in bit order
FlagWords ==
    <<<<"F", "U", "N", "C", "T", "I", "O", "N", "_", "A", "R", "G", "L", "I", "S", "T">>,
      <<"F", "U", "N", "C", "T", "I", "O", "N", "_", "L", "O", "C", "A", "T", "I", "O", "N">>,
      <<"R", "E", "T", "U", "R", "N", "_", "V", "A", "L", "U", "E", "S">>,
      <<"A", "L", "L", "F", "R", "A", "M", "E", "S", "_", "O", "N", "E", "B", "E", "L", "O", "W">>>>

ShortNames == {FlagWords[i] : i \in 1..Len(FlagWords)}

LongNames == {W_TRACE_DISPLAY_ \o w : w \in ShortNames}

\* names that are not in the symbol table
UnknownNames == {<<"F", "O", "O">>, <<"A", "R", "G", "L", "I", "S", "T">>}

Numerals ==
    {<<"1", "5">>, <<"1", "6">>, <<"0", "b", "1", "1", "1", "1">>, <<"0", "x", "F">>, <<"0", "o", "1", "7">>, <<"0">>, <<"1">>, <<"2">>, <<"4">>, <<"8">>}

Operands == ShortNames \cup LongNames \cup UnknownNames \cup {<<"1">>, <<"2">>, <<"4">>, <<"8">>}

\* the specifications of the usage comment, lines 80-111, that need no shift operator
DocumentedSpecs ==
    {<<"1", "+", "2", "+", "4", "+", "8">>, <<"1", "|", "2", "|", "4", "|", "8">>, <<"1", "+", "2", "+", "4">>, <<"1", "|", "2", "|", "4">>,
     join(FlagWords, "|"),
     join([i \in 1..Len(FlagWords) |-> W_TRACE_DISPLAY_ \o FlagWords[i]], "|"),
     join(SubSeq(FlagWords, 1, 3), "|")}

\* specifications that Python does not compile, whatever quotes surround them
UncompilableSpecs ==
    {<<"1", "|">>, <<"|", "1">>, <<"1", "|", "|", "2">>, <<"1", " ", "2">>, <<"F", "O", "O", "|">>, <<"|", "F", "O", "O">>, <<"F", "O", "O", " ", "B", "A", "R">>,
     <<"R", "E", "T", "U", "R", "N", "_", "V", "A", "L", "U", "E", "S", "|">>, <<" ", "1", "|", "2">>, <<" ", "F", "U", "N", "C", "T", "I", "O", "N", "_", "A", "R", "G", "L", "I", "S", "T", "|", "R", "E", "T", "U", "R", "N", "_", "V", "A", "L", "U", "E", "S">>, <<"1", "|", "'">>}

\* other specifications: whitespace, signs, unbalanced quotes, string literals
OddSpecs ==
    {<<>>, <<" ">>, <<" ", "7">>, <<"7", " ">>, <<"+", "7">>, <<"+", " ", "7">>, <<"1", " ", "|", " ", "2">>, <<"1", "&", "3", "|", "8">>, <<"0", "1", "7">>, <<"F", "O", "O", "+", "+", "1">>,
     <<"F", "U", "N", "C", "T", "I", "O", "N", "_", "A", "R", "G", "L", "I", "S", "T", " ", "|", " ", "R", "E", "T", "U", "R", "N", "_", "V", "A", "L", "U", "E", "S">>, <<"\"", "7">>, <<"7", "\"">>, <<"'", "7", "\"">>, <<"7", "'">>,
     <<"'", "1", "'", "+", "1">>, <<"B", "'", "1", "'", "+", "B", "'", "2", "'">>, <<"R", "'", "F", "O", "O", "'">>, <<"'", "1", "'", "+", "'", "2", "'">>}

Specs ==
    Numerals \cup Operands \cup DocumentedSpecs \cup UncompilableSpecs \cup OddSpecs
    \cup {a \o <<op>> \o b : a \in Operands, b \in Operands, op \in {"|", "&", "+"}}

\* s inside layers of matching outer quotes, layers[1] innermost
RECURSIVE Quoted(_, _)
Quoted(s, layers) ==
    IF layers = <<>> THEN s
    ELSE Quoted(<<layers[1]>> \o s \o <<layers[1]>>, Tail(layers))

QuoteLayers == UNION {[1..n -> Quotes] : n \in 0..MaxQuoteLayers}

FlagsInit ==
    /\ TRACEFLAGS_ENV \in {<<>>} \cup {<<Quoted(s, layers)>> : s \in Specs, layers \in QuoteLayers}
    /\ _TRACEFLAGS = <<>>
    /\ resolved = <<>>
    /\ ncalls = 0
    /\ TRACEFLAGS = 0
    /\ DEBUG_LOGGING = FALSE
    /\ stack = CallerStack(1)
    /\ FRAME_ENTRY_DEPTH = 0
    /\ FRAME_ENTRY_LOCATION = <<>>
    /\ FRAME_ENTRY_SLOT = -1
    /\ FRAME_LAST_CHAINLENGTH = 0
    /\ out = <<>>
    /\ tr = NoNotification
    /\ nevents = 0
    /\ NoLogFiles

\* the call has handed back or raised r
Resolved(r) ==
    /\ _TRACEFLAGS' = r.cache
    /\ resolved' = Append(resolved, r)

\* a call of _MSCOMMON.get_trace_display_traceflags(); `resolved` keeps what every call so far
\* handed back or raised
Resolve ==
    /\ ncalls < MaxResolveCalls
    /\ Resolved(get_trace_display_traceflags(TRACEFLAGS_ENV, _TRACEFLAGS))
    /\ ncalls' = ncalls + 1
    /\ UNCHANGED <<TRACEFLAGS_ENV, tracevars, filevars>>

FlagsNext == Resolve

FlagsSpec == FlagsInit /\ [][FlagsNext]_vars

(***************************************************************************)
(* Properties of the resolver, checked under FlagsSpec.                    *)
(***************************************************************************)

\* the value of the environment variable without its quote characters
Unquoted == SelectSeq(TRACEFLAGS_ENV[1], LAMBDA c : c \notin Quotes)

\* the environment variable is set to `inner` inside layers of matching outer quotes
QuotedSpec(inner) == \E layers \in QuoteLayers : TRACEFLAGS_ENV[1] = Quoted(inner, layers)

\* the maximal runs of s between the characters of seps
RECURSIVE Runs(_, _)
Runs(s, seps) ==
    IF \A i \in 1..Len(s) : s[i] \notin seps THEN <<s>>
    ELSE LET i == CHOOSE j \in 1..Len(s) :
                      s[j] \in seps /\ \A k \in 1..(j - 1) : s[k] \notin seps
         IN  <<SubSeq(s, 1, i - 1)>> \o Runs(SubSeq(s, i + 1, Len(s)), seps)

IsName(w) ==
    /\ w # <<>>
    /\ w[1] \in Letters \cup {"_"}
    /\ \A i \in 1..Len(w) : w[i] \in WordChars

IsDecimal(w) ==
    /\ w # <<>>
    /\ \A i \in 1..Len(w) : w[i] \in BaseDigits(10)
    /\ (w[1] = "0" => Len(w) = 1)

KnownNames == ShortNames \cup LongNames

\* the flags (1..4 in bit order) that the names of parts name, by long or short name
NamedFlags(parts) ==
    {i \in 1..Len(FlagWords) :
        \E j \in 1..Len(parts) : parts[j] \in {FlagWords[i], W_TRACE_DISPLAY_ \o FlagWords[i]}}

\* the bitwise OR of the bits of the flags of F
MaskOf(F) ==
    (IF 1 \in F THEN 1 ELSE 0) + (IF 2 \in F THEN 2 ELSE 0)
    + (IF 3 \in F THEN 4 ELSE 0) + (IF 4 \in F THEN 8 ELSE 0)

\* the names of `parts` that are not in the symbol table, in order
UnknownAmong(parts) == SelectSeq(parts, LAMBDA w : IsName(w) /\ w \notin KnownNames)

\* every call so far has handed back the mask n, which is cached
AllReturned(n) ==
    /\ \A k \in 1..Len(resolved) :
           resolved[k].raised = "" /\ resolved[k].value = <<IntValue(n)>>
    /\ _TRACEFLAGS = <<IntValue(n)>>

\* every call so far has raised `exception`, and nothing is cached
AllRaised(exception) ==
    /\ \A k \in 1..Len(resolved) :
           resolved[k].raised = exception /\ resolved[k].value = <<>>
    /\ _TRACEFLAGS = <<>>

\* the names joined by `|`, or joined with numbers by single `|`, `&` or `+`
NamesJoined == Runs(Unquoted, {"|"})

OperandsJoined == Runs(Unquoted, OperatorChars)

\* C7 (amended): for flag names joined with `|` the mask is the bitwise OR of the bits of
\* the named flags, a long name and its short alias being interchangeable.  A well-formed
\* expression (names and decimal numbers joined by single `|`, `&` or `+`) that holds a
\* name outside the symbol table fails with the named-symbol error, which carries the
\* first such name; a malformed expression that holds such a name fails too, but with the
\* value error of the failed compilation.  In neither case is a mask handed back or cached.
C7_NamesResolve ==
    (resolved # <<>> /\ TRACEFLAGS_ENV # <<>> /\ QuotedSpec(Unquoted))
        => /\ (\A j \in 1..Len(NamesJoined) : NamesJoined[j] \in KnownNames)
                  => AllReturned(MaskOf(NamedFlags(NamesJoined)))
           /\ (UnknownAmong(Runs(Unquoted, OperatorChars \cup Whitespace)) # <<>>)
                  => IF \A j \in 1..Len(OperandsJoined) :
                            IsName(OperandsJoined[j]) \/ IsDecimal(OperandsJoined[j])
                     THEN /\ AllRaised("NameError")
                          /\ \A k \in 1..Len(resolved) :
                                 resolved[k].arg = UnknownAmong(OperandsJoined)[1]
                     ELSE AllRaised("NameError") \/ AllRaised("ValueError")

\* a long name and the short name of another flag, joined with `|`, have resolved to the
\* OR of their two bits
C7_Witness ==
    /\ Len(resolved) = 1
    /\ TRACEFLAGS_ENV = <<join(<<W_TRACE_DISPLAY_ \o FlagWords[3], FlagWords[4]>>, "|")>>
    /\ resolved[1].value = <<IntValue(12)>>

\* C7 as stated: ... and an expression that holds a name outside the symbol table always
\* fails with the named-symbol error carrying that name
C7_AsStated ==
    (resolved # <<>> /\ TRACEFLAGS_ENV # <<>> /\ QuotedSpec(Unquoted))
        => /\ (\A j \in 1..Len(NamesJoined) : NamesJoined[j] \in KnownNames)
                  => AllReturned(MaskOf(NamedFlags(NamesJoined)))
           /\ (UnknownAmong(Runs(Unquoted, OperatorChars \cup Whitespace)) # <<>>)
                  => /\ AllRaised("NameError")
                     /\ \A k \in 1..Len(resolved) :
                            resolved[k].arg
                                = UnknownAmong(Runs(Unquoted, OperatorChars \cup Whitespace))[1]

\* the five spellings of 15 of the usage comment
SpellingsOf15 ==
    {<<"1", "5">>, <<"0", "b", "1", "1", "1", "1">>, <<"0", "x", "F">>,
     <<"1", "+", "2", "+", "4", "+", "8">>, <<"1", "|", "2", "|", "4", "|", "8">>}

\* C8: "15", "0b1111", "0xF", "1+2+4+8" and "1|2|4|8" all resolve to 15: the three integer
\* literals by the integer conversion, the two operator expressions by evaluation.
C8_SpellingsOf15 ==
    (resolved # <<>> /\ TRACEFLAGS_ENV # <<>> /\ Unquoted \in SpellingsOf15
     /\ QuotedSpec(Unquoted))
        => /\ AllReturned(15)
           /\ resolved[1].path = IF \E i \in 1..Len(Unquoted) : Unquoted[i] \in OperatorChars
                                 THEN "eval" ELSE "int"

\* the binary spelling has been resolved, by the integer conversion
C8_Witness ==
    /\ Len(resolved) = 1
    /\ TRACEFLAGS_ENV = <<<<"0", "b", "1", "1", "1", "1">>>>
    /\ resolved[1].path = "int"
    /\ _TRACEFLAGS = <<IntValue(15)>>

\* C9: an expression that is no integer literal and that compile() rejects is fatal: every
\* resolution raises the value error of the failed compilation, whose message carries the
\* raw value of the environment variable, outer quotes included; nothing is cached, and a
\* later call fails the same way.
C9_UncompilableIsFatal ==
    (resolved # <<>> /\ TRACEFLAGS_ENV # <<>>
     /\ \E spec \in UncompilableSpecs : QuotedSpec(spec))
        => /\ AllRaised("ValueError")
           /\ \A k \in 1..Len(resolved) :
                  /\ resolved[k].message = "Trace display compilation failed: %s"
                  /\ resolved[k].arg = TRACEFLAGS_ENV[1]
                  /\ resolved[k] = resolved[1]

\* a quoted uncompilable expression has been resolved twice
C9_Witness ==
    /\ Len(resolved) = 2
    /\ TRACEFLAGS_ENV = <<<<"\"", "1", "|", "\"">>>>
    /\ resolved[2].raised = "ValueError"
    /\ resolved[2].arg = <<"\"", "1", "|", "\"">>

\* what a resolution comes to: the exception it raises, or the value it hands back
Outcome(r) == <<r.raised, r.value>>

\* C10 as stated: a specification inside one more layer of matching outer quotes resolves
\* as the specification itself does, and a specification of which the quote stripping
\* leaves nothing resolves to the default mask
C10_AsStated ==
    (Len(resolved) = 1 /\ TRACEFLAGS_ENV # <<>>)
        => /\ Unquoted = <<>> /\ QuotedSpec(<<>>)
                  => Outcome(resolved[1]) = <<"", <<IntValue(TRACE_DISPLAY_DEFAULT)>>>>
           /\ \A q \in Quotes :
                  Outcome(get_trace_display_traceflags(
                              <<Quoted(TRACEFLAGS_ENV[1], <<q>>)>>, <<>>))
                      = Outcome(resolved[1])

\* the number a decimal numeral writes
RECURSIVE DecimalValue(_)
DecimalValue(w) ==
    IF w = <<>> THEN 0
    ELSE 10 * DecimalValue(SubSeq(w, 1, Len(w) - 1))
         + (CHOOSE d \in 0..9 : <<"0", "1", "2", "3", "4", "5", "6", "7", "8", "9">>[d + 1] = w[Len(w)])

\* C11 (amended): the resolved mask is not clipped to four bits.  An absent specification
\* gives 7; a decimal integer literal resolves to its own value, whatever its size ("16"
\* gives 16); an expression that joins flag names with `|` or `&` gives an integer in 0..15.
C11_MaskNotClipped ==
    resolved # <<>>
        => /\ TRACEFLAGS_ENV = <<>> => AllReturned(TRACE_DISPLAY_DEFAULT)
           /\ (TRACEFLAGS_ENV # <<>> /\ QuotedSpec(Unquoted) /\ IsDecimal(Unquoted))
                  => AllReturned(DecimalValue(Unquoted))
           /\ (/\ TRACEFLAGS_ENV # <<>>
               /\ QuotedSpec(Unquoted)
               /\ \A w \in {Runs(Unquoted, {"|", "&"})[j] : j \in 1..Len(Runs(Unquoted, {"|", "&"}))} :
                      w \in KnownNames)
                  => \E n \in 0..15 : AllReturned(n)

\* the specification "16" has resolved to 16
C11_Witness ==
    /\ Len(resolved) = 1
    /\ TRACEFLAGS_ENV = <<<<"1", "6">>>>
    /\ resolved[1].value = <<IntValue(16)>>
    /\ _TRACEFLAGS = <<IntValue(16)>>

\* C11 as stated: whatever resolves without error is an integer in 0..15
C11_AsStated ==
    \A k \in 1..Len(resolved) :
        resolved[k].raised = ""
            => resolved[k].value[1].t = "int" /\ resolved[k].value[1].n \in 0..15

(***************************************************************************)
(* The log file names at work: the process starts in a directory that      *)
(* holds some files; the class bodies of _MSCOMMON and _MSCOMMON_TRACE, or *)
(* any later caller, ask rewrite_filename for a name, and the file of the  *)
(* name handed back is opened for writing.                                 *)
(***************************************************************************)

MaxRewrites == 3

\* values of SCONS_MSCOMMON_DEBUG / SCONS_MSCOMMON_TRACE
Templates == {<<"r", "u", "n", "-", "#", ".", "l", "o", "g">>, <<"r", "u", "n", "-", "#", ".", "t", "r", "c">>, <<"r", "u", "n", ".", "l", "o", "g">>, <<>>}

\* files the directory may hold when the process starts
PresetFiles ==
    {<<"r", "u", "n", "-", "0", "0", "0", "1", ".", "l", "o", "g">>, <<"r", "u", "n", "-", "0", "0", "0", "3", ".", "l", "o", "g">>, <<"r", "u", "n", "-", "9", "9", "9", "9", ".", "l", "o", "g">>, <<"r", "u", "n", "-", "1", "0", "0", "0", "0", ".", "l", "o", "g">>,
     <<"r", "u", "n", "-", "n", "o", "t", "e", "s", ".", "l", "o", "g">>, <<"r", "u", "n", "-", "0", "0", "0", "2", ".", "t", "r", "c">>, <<"r", "u", "n", "x", "-", "0", "0", "0", "7", ".", "l", "o", "g">>}

FilesInit ==
    /\ files \in SUBSET PresetFiles
    /\ _last_n = <<>>
    /\ rw = NoRewrite
    /\ nrewrites = 0
    /\ allocated = <<>>
    /\ TRACEFLAGS_ENV = <<>>
    /\ _TRACEFLAGS = <<>>
    /\ resolved = <<>>
    /\ ncalls = 0
    /\ TRACEFLAGS = 0
    /\ DEBUG_LOGGING = FALSE
    /\ stack = CallerStack(1)
    /\ FRAME_ENTRY_DEPTH = 0
    /\ FRAME_ENTRY_LOCATION = <<>>
    /\ FRAME_ENTRY_SLOT = -1
    /\ FRAME_LAST_CHAINLENGTH = 0
    /\ out = <<>>
    /\ tr = NoNotification
    /\ nevents = 0

\* the call rewrite_filename(template, sync) has handed back or raised r
RewriteDone(r, template, sync) ==
    /\ _last_n' = r._last_n
    /\ rw' = [template |-> template, sync |-> sync, before |-> _last_n] @@ r
    /\ allocated' = IF r.scanned /\ r.raised = "" /\ r._last_n = r.n
                    THEN Append(allocated, r._last_n[1]) ELSE allocated

\* a call of _MSCOMMON.rewrite_filename(template, sync)
Rewrite ==
    /\ nrewrites < MaxRewrites
    /\ \E template \in Templates, sync \in BOOLEAN :
           RewriteDone(rewrite_filename(template, sync, _last_n, files), template, sync)
    /\ nrewrites' = nrewrites + 1
    /\ UNCHANGED <<files, flagvars, tracevars>>

\* open(name, 'w') on the name the last call handed back creates the file
Open ==
    /\ nrewrites > 0
    /\ rw.raised = ""
    /\ rw.filename # <<>>
    /\ rw.filename \notin files
    /\ files' = files \cup {rw.filename}
    /\ UNCHANGED <<_last_n, rw, nrewrites, allocated, flagvars, tracevars>>

FilesNext ==
    \/ Rewrite
    \/ Open

FilesSpec == FilesInit /\ [][FilesNext]_vars

(***************************************************************************)
(* Properties of the log file names, checked under FilesSpec.              *)
(***************************************************************************)

\* a template whose root ends in the marker "-#", the part of it up to the '#' and the part
\* after it
IsMarked(template) == contains(template, FILENAME_SERIALNBR)
Stem(template) == SubSeq(template, 1, Min(occurrences(template, <<"#">>)) - 1)
Extension(template) == SubSeq(template, Min(occurrences(template, <<"#">>)) + 1, Len(template))

\* the existing files of the form stem + any suffix + extension, and the suffix of one
Matching(template, names) ==
    {f \in names :
        /\ Len(f) >= Len(Stem(template)) + Len(Extension(template))
        /\ SubSeq(f, 1, Len(Stem(template))) = Stem(template)
        /\ SubSeq(f, Len(f) - Len(Extension(template)) + 1, Len(f)) = Extension(template)}

Numeral(name, template) ==
    SubSeq(name, Len(Stem(template)) + 1, Len(name) - Len(Extension(template)))

Greatest(names) == CHOOSE g \in names : \A o \in names : ~str_lt(g, o)

IsDigits(w) == w # <<>> /\ \A i \in 1..Len(w) : w[i] \in BaseDigits(10)

\* name is the template with n in the marker's place, zero-padded to four digits
Numbered(name, template, n) ==
    /\ name \in Matching(template, {name})
    /\ IsDigits(Numeral(name, template))
    /\ DecimalValue(Numeral(name, template)) = n
    /\ Len(Numeral(name, template)) >= 4
    /\ (Len(Numeral(name, template)) > 4 => Numeral(name, template)[1] # "0")

\* <<the number after that of the greatest matching file>>, <<1>> when no file matches,
\* <<>> when the greatest matching file holds no number
NextNumber(template, names) ==
    IF Matching(template, names) = {} THEN <<1>>
    ELSE LET d == Numeral(Greatest(Matching(template, names)), template)
         IN  IF IsDigits(d) THEN <<DecimalValue(d) + 1>> ELSE <<>>

\* this step is a rewrite_filename call
RewriteStep == nrewrites' = nrewrites + 1

\* C12: a rewrite_filename call on a marked template with no stored number hands back the
\* template numbered one past the number of the lexicographically greatest matching file,
\* or numbered 0001 when no file matches.
C12_AsStated ==
    [][RewriteStep /\ IsMarked(rw'.template) /\ _last_n = <<>>
       => /\ rw'.raised = ""
          /\ NextNumber(rw'.template, files) # <<>>
          /\ Numbered(rw'.filename, rw'.template, NextNumber(rw'.template, files)[1])]_vars

\* the last rewrite_filename call had sync=True and a marked template
SyncCall == nrewrites > 0 /\ rw.sync /\ IsMarked(rw.template)

\* C13 (amended): a sync=True call on a marked template never changes the stored number.
\* When a number is stored, the call uses the number stored by the most recent sync=False
\* call, without scanning and whatever files exist; when none is stored, it scans afresh
\* (handing back what the scan gives, or raising its ValueError) and stores nothing.
C13_SyncReusesLastNumber ==
    /\ [](SyncCall =>
            /\ _last_n = rw.before
            /\ allocated # <<>> =>
                   /\ ~rw.scanned
                   /\ rw.raised = ""
                   /\ Numbered(rw.filename, rw.template, allocated[Len(allocated)])
            /\ allocated = <<>> => rw.scanned /\ _last_n = <<>>)
    /\ [][RewriteStep /\ rw'.sync /\ IsMarked(rw'.template) /\ _last_n = <<>>
          => IF NextNumber(rw'.template, files) = <<>> THEN rw'.raised # ""
             ELSE /\ rw'.raised = ""
                  /\ Numbered(rw'.filename, rw'.template, NextNumber(rw'.template, files)[1])]_vars

\* a sync=True call reuses the second of two different stored numbers, for a name that
\* is already taken
C13_Witness ==
    /\ SyncCall
    /\ Len(allocated) = 2
    /\ allocated[1] # allocated[2]
    /\ ~rw.scanned
    /\ rw.filename \in files

\* C13 as stated: every sync=True call on a marked template uses the number of every earlier
\* sync=False allocation.
C13_AsStated ==
    SyncCall => \A i \in 1..Len(allocated) :
                    ~rw.scanned /\ Numbered(rw.filename, rw.template, allocated[i])

\* C29: a sync=False call on a marked template that hands a name back hands back a number
\* greater than the number of every existing file matching the scan pattern, and a name
\* that no existing file has.
C29_AsStated ==
    [][(RewriteStep /\ IsMarked(rw'.template) /\ ~rw'.sync /\ rw'.raised = "")
       => /\ rw'.filename \notin files
          /\ \A f \in Matching(rw'.template, files) :
                 IsDigits(Numeral(f, rw'.template))
                     => DecimalValue(Numeral(f, rw'.template)) < rw'.n[1]]_vars

====
